---- MODULE Spec2Model ----
(***************************************************************************)
(* Accuracy scoring and prompt evaluation of the receipt extraction        *)
(* benchmark: GroundTruthComparator.compare_fields and generate_report     *)
(* (benchmarking/compare_with_ground_truth.py), PromptTuningHarness        *)
(* (optimization/tuning_harness.py), the per-receipt summary of            *)
(* benchmarking/test_prompts_on_samples.py, and the version ranking of     *)
(* tune_deepseek_to_gpt.py.                                                *)
(*                                                                         *)
(* Python values are modelled as records of one shape [t, s, n]:           *)
(*   t = "absent"  the key is not in the dict                              *)
(*   t = "none"    the key maps to None (JSON null)                        *)
(*   t = "str"     a string, s is its sequence of characters               *)
(*   t = "num"     a number, n is its value in units of 1 / Unit           *)
(*   t = "list"    a list, n is its length                                 *)
(* Scores are exact rationals [num, den] with den > 0, in lowest terms;    *)
(* floating point rounding is not modelled.                                *)
(***************************************************************************)
EXTENDS Integers, Sequences, FiniteSets, TLC

(* ---------------------------- bounds ----------------------------------- *)
MaxLen == 2
MaxNum == 3
MaxItems == 2
MaxEvals == 3
\* length of the long merchant name
LongLen == 200
\* resolution of the numbers: a number is a multiple of 1 / Unit
Unit == 250

(* ------------------------ rationals (scores) --------------------------- *)
Abs(x) == IF x < 0 THEN -x ELSE x

RECURSIVE Gcd(_, _)
Gcd(a, b) == IF b = 0 THEN a ELSE Gcd(b, a % b)

\* n/d in lowest terms with a positive denominator (d # 0)
Rat(n, d) ==
    LET g == Gcd(Abs(n), Abs(d))
        sg == IF d < 0 THEN -1 ELSE 1
    IN  [num |-> (sg * n) \div g, den |-> (sg * d) \div g]

RatZero == [num |-> 0, den |-> 1]
RatOne == [num |-> 1, den |-> 1]
RatLE(x, y) == x.num * y.den <= y.num * x.den
RatLT(x, y) == x.num * y.den < y.num * x.den
RatSub(x, y) == Rat(x.num * y.den - y.num * x.den, x.den * y.den)
RatAdd(x, y) == Rat(x.num * y.den + y.num * x.den, x.den * y.den)
RatMul(x, y) == Rat(x.num * y.num, x.den * y.den)
\* Python max(0, x): 0 is kept unless x > 0
Max0(x) == IF RatLT(RatZero, x) THEN x ELSE RatZero
InUnit(x) == RatLE(RatZero, x) /\ RatLE(x, RatOne)

(* --------------------------- Python values ----------------------------- *)
Chars == {"a", "A", "1", " "}
Whitespace == {" "}
Digits == {"1"}

Absent == [t |-> "absent", s |-> <<>>, n |-> 0]
None == [t |-> "none", s |-> <<>>, n |-> 0]
Str(s) == [t |-> "str", s |-> s, n |-> 0]
\* the integer n, and the fraction k / Unit
Num(n) == [t |-> "num", s |-> <<>>, n |-> n * Unit]
Frac(k) == [t |-> "num", s |-> <<>>, n |-> k]
List(n) == [t |-> "list", s |-> <<>>, n |-> n]

RECURSIVE SeqsUpTo(_)
SeqsUpTo(k) ==
    IF k = 0 THEN {<<>>}
    ELSE LET prev == SeqsUpTo(k - 1)
         IN  prev \cup {Append(p, c) : p \in {q \in prev : Len(q) = k - 1}, c \in Chars}

Strings == SeqsUpTo(MaxLen)
StrValues == {Str(s) : s \in Strings}
NumValues == {Num(n) : n \in (-MaxNum)..MaxNum} \cup {Frac(k) : k \in (-MaxNum)..MaxNum}
ListValues == {List(n) : n \in 0..MaxItems}
Values == {Absent, None} \cup StrValues \cup NumValues \cup ListValues

IsStr(v) == v.t = "str"
IsNum(v) == v.t = "num"
IsList(v) == v.t = "list"

\* bool(v): None, "", 0 and [] are falsy
Truthy(v) ==
    CASE v.t = "none" -> FALSE
      [] v.t = "absent" -> FALSE
      [] v.t = "str" -> v.s # <<>>
      [] v.t = "num" -> v.n # 0
      [] v.t = "list" -> v.n # 0

\* `v or d`
Or(v, d) == IF Truthy(v) THEN v ELSE d

\* dict.get(key) and dict.get(key, default)
Get(rec, f) == IF rec[f] = Absent THEN None ELSE rec[f]
GetDefault(rec, f, d) == IF rec[f] = Absent THEN d ELSE rec[f]

(* --------------------------- string methods ---------------------------- *)
LowerChar(c) == IF c = "A" THEN "a" ELSE IF c = "L" THEN "l" ELSE c
lower(s) == [i \in 1..Len(s) |-> LowerChar(s[i])]

RECURSIVE lstrip(_)
lstrip(s) == IF s # <<>> /\ Head(s) \in Whitespace THEN lstrip(Tail(s)) ELSE s

RECURSIVE rstrip(_)
rstrip(s) ==
    IF s # <<>> /\ s[Len(s)] \in Whitespace THEN rstrip(SubSeq(s, 1, Len(s) - 1)) ELSE s

strip(s) == rstrip(lstrip(s))

RECURSIVE DigitsValue(_)
DigitsValue(s) == IF s = <<>> THEN 0 ELSE 10 * DigitsValue(SubSeq(s, 1, Len(s) - 1)) + 1

\* float(str): surrounding whitespace is ignored, the rest must be a numeral
IsNumeral(s) == strip(s) # <<>> /\ \A i \in 1..Len(strip(s)) : strip(s)[i] \in Digits

(* --------------------- difflib.SequenceMatcher ------------------------- *)
\* indices are Python's: a[i] is a[i + 1] here, ranges are half open
RECURSIVE MatchLen(_, _, _, _, _, _)
MatchLen(a, b, i, j, ahi, bhi) ==
    IF i < ahi /\ j < bhi /\ a[i + 1] = b[j + 1]
    THEN 1 + MatchLen(a, b, i + 1, j + 1, ahi, bhi)
    ELSE 0

\* bpopular of __chain_b: when b has 200 elements or more, the elements that
\* occur more than len(b) // 100 + 1 times are left out of the index b2j
Popular(b) ==
    IF Len(b) >= 200
    THEN {c \in {b[n] : n \in 1..Len(b)} :
             Cardinality({n \in 1..Len(b) : b[n] = c}) > Len(b) \div 100 + 1}
    ELSE {}

\* length of the block starting at a[i], b[j] found through the index b2j
RECURSIVE IndexedLen(_, _, _, _, _, _, _)
IndexedLen(a, b, popular, i, j, ahi, bhi) ==
    IF i < ahi /\ j < bhi /\ a[i + 1] = b[j + 1] /\ b[j + 1] \notin popular
    THEN 1 + IndexedLen(a, b, popular, i + 1, j + 1, ahi, bhi)
    ELSE 0

\* number of equal elements before a[i], b[j], down to alo and blo
RECURSIVE MatchLenBefore(_, _, _, _, _, _)
MatchLenBefore(a, b, i, j, alo, blo) ==
    IF i > alo /\ j > blo /\ a[i] = b[j]
    THEN 1 + MatchLenBefore(a, b, i - 1, j - 1, alo, blo)
    ELSE 0

\* longest matching block: the longest block of indexed elements, the
\* earliest in a and then the earliest in b (or the empty block at alo, blo),
\* extended over the equal elements on both of its sides
find_longest_match(a, b, alo, ahi, blo, bhi) ==
    LET popular == Popular(b)
        cand == {m \in {[i |-> p[1], j |-> p[2],
                         k |-> IndexedLen(a, b, popular, p[1], p[2], ahi, bhi)] :
                            p \in (alo..(ahi - 1)) \X (blo..(bhi - 1))} : m.k > 0}
        Extended(best) ==
            LET before == MatchLenBefore(a, b, best.i, best.j, alo, blo)
                after == MatchLen(a, b, best.i + best.k, best.j + best.k, ahi, bhi)
            IN  [i |-> best.i - before, j |-> best.j - before,
                 k |-> best.k + before + after]
    IN  Extended(IF cand = {} THEN [i |-> alo, j |-> blo, k |-> 0]
                 ELSE CHOOSE p \in cand :
                        \A q \in cand :
                           \/ p.k > q.k
                           \/ /\ p.k = q.k
                              /\ \/ p.i < q.i
                                 \/ p.i = q.i /\ p.j <= q.j)

\* sum of the sizes of get_matching_blocks()
RECURSIVE matches(_, _, _, _, _, _)
matches(a, b, alo, ahi, blo, bhi) ==
    LET m == find_longest_match(a, b, alo, ahi, blo, bhi)
    IN  IF m.k = 0 THEN 0
        ELSE m.k
             + (IF alo < m.i /\ blo < m.j
                THEN matches(a, b, alo, m.i, blo, m.j) ELSE 0)
             + (IF m.i + m.k < ahi /\ m.j + m.k < bhi
                THEN matches(a, b, m.i + m.k, ahi, m.j + m.k, bhi) ELSE 0)

\* SequenceMatcher(None, a, b).ratio()
ratio(a, b) ==
    IF Len(a) + Len(b) = 0 THEN RatOne
    ELSE Rat(2 * matches(a, b, 0, Len(a), 0, Len(b)), Len(a) + Len(b))

(* ------------------------- records and files --------------------------- *)
StringFields == <<"merchant_name", "date", "payment_method">>
NumericFields == <<"total_amount", "subtotal_amount">>
Fields == {"merchant_name", "date", "payment_method", "total_amount",
           "subtotal_amount", "tax_amount", "items"}
ReceiptIds == {"r1", "r2"}
\* prompt versions in the order the scripts iterate them (lexical order)
VersionList == <<"v1", "v2", "v3", "v4", "v5", "v6">>
Versions == {VersionList[i] : i \in 1..Len(VersionList)}

\* the dict {} and a well formed receipt
EmptyRec == [f \in Fields |-> Absent]
BaseRec == [f \in Fields |->
              CASE f = "merchant_name" -> Str(<<"a">>)
                [] f = "date" -> Str(<<"1">>)
                [] f = "payment_method" -> Str(<<"a", "a">>)
                [] f = "total_amount" -> Num(2)
                [] f = "subtotal_amount" -> Num(1)
                [] f = "tax_amount" -> Num(1)
                [] f = "items" -> List(1)]

\* the amount of c hundredths
Cents(c) == Frac((c * Unit) \div 100)

\* the extracted record of the example run of compare_with_ground_truth.py and
\* the ground truth of receipt lidl_20250526 it is compared with
ExampleGroundTruth ==
    [f \in Fields |->
       CASE f = "merchant_name" -> Str(<<"L", "i", "d", "l">>)
         [] f = "date" -> Str(<<"2", "0", "2", "5", "-", "0", "5", "-", "2", "6">>)
         [] f = "payment_method" -> Absent
         [] f = "total_amount" -> Cents(5394)
         [] f = "subtotal_amount" -> Cents(4580)
         [] f = "tax_amount" -> Absent
         [] f = "items" -> List(7)]
ExampleExtracted ==
    [ExampleGroundTruth EXCEPT !["payment_method"] = Str(<<"c", "a", "r", "d">>)]

\* bool(dict): a dict with no key is falsy
DictTruthy(rec) == \E f \in Fields : rec[f] # Absent

\* ground_truth_dir / f"{receipt_id}.json": missing, or holding a JSON object
NoFile == [exists |-> FALSE, json |-> EmptyRec]
File(rec) == [exists |-> TRUE, json |-> rec]

load_ground_truth(dir, receipt_id) ==
    IF dir[receipt_id].exists THEN dir[receipt_id].json ELSE EmptyRec

(* ------------------ results of calls that may raise -------------------- *)
Ok(x) == [exc |-> "none", score |-> x]
Raise(e) == [exc |-> e, score |-> RatZero]

\* the exception of the first failing step, "none" when every step returns
RECURSIVE FirstExc(_)
FirstExc(rs) ==
    IF rs = <<>> THEN "none"
    ELSE IF Head(rs).exc # "none" THEN Head(rs).exc ELSE FirstExc(Tail(rs))

\* float(v) for a truthy v or the number 0, in units of 1 / Unit
float(v) ==
    CASE v.t = "num" -> Ok(v.n)
      [] v.t = "str" -> IF IsNumeral(v.s) THEN Ok(Unit * DigitsValue(strip(v.s)))
                        ELSE Raise("ValueError")
      [] OTHER -> Raise("TypeError")

\* n / d
Div(n, d) == IF d = 0 THEN Raise("ZeroDivisionError") ELSE Ok(Rat(n, d))

\* max(0, 1 - error) for the result of a division
ClampedScore(error) ==
    IF error.exc # "none" THEN error ELSE Ok(Max0(RatSub(RatOne, error.score)))

\* len(v)
len(v) ==
    CASE v.t = "str" -> Ok(Len(v.s))
      [] v.t = "list" -> Ok(v.n)
      [] OTHER -> Raise("TypeError")

(* ---------------- GroundTruthComparator.compare_fields ----------------- *)
\* (v or "").lower().strip()
NormStr(v) ==
    LET x == Or(v, Str(<<>>))
    IN  IF IsStr(x) THEN Ok(strip(lower(x.s))) ELSE Raise("AttributeError")

\* CompareString scoring a field the ground truth lacks as a match
CompareString_MissingMatches(extracted, ground_truth, field) ==
    LET extracted_val == NormStr(Get(extracted, field))
        gt_val == NormStr(Get(ground_truth, field))
    IN  IF extracted_val.exc # "none" THEN Raise(extracted_val.exc)
        ELSE IF gt_val.exc # "none" THEN Raise(gt_val.exc)
        ELSE IF extracted_val.score = gt_val.score \/ gt_val.score = <<>> THEN Ok(RatOne)
        ELSE Ok(ratio(extracted_val.score, gt_val.score))

CompareString(extracted, ground_truth, field) ==
    LET extracted_val == NormStr(Get(extracted, field))
        gt_val == NormStr(Get(ground_truth, field))
    IN  IF extracted_val.exc # "none" THEN Raise(extracted_val.exc)
        ELSE IF gt_val.exc # "none" THEN Raise(gt_val.exc)
        ELSE IF extracted_val.score = gt_val.score THEN Ok(RatOne)
        ELSE Ok(ratio(extracted_val.score, gt_val.score))

\* RelErrScoreCF with the equality test of the zero case inverted
RelErrScoreCF_ZeroSwapped(extracted_val, gt_val) ==
    IF gt_val = 0 THEN Ok(IF extracted_val = 0 THEN RatZero ELSE RatOne)
    ELSE ClampedScore(Div(Abs(extracted_val - gt_val), gt_val))

\* 1.0 if extracted_val == 0 else 0.0 when gt_val == 0, else max(0, 1 - error)
\* with error = abs(extracted_val - gt_val) / gt_val
RelErrScoreCF(extracted_val, gt_val) ==
    IF gt_val = 0 THEN Ok(IF extracted_val = 0 THEN RatOne ELSE RatZero)
    ELSE ClampedScore(Div(Abs(extracted_val - gt_val), gt_val))

CompareNumeric(extracted, ground_truth, field) ==
    LET extracted_val == float(Or(Get(extracted, field), Num(0)))
        gt_val == float(Or(Get(ground_truth, field), Num(0)))
    IN  IF extracted_val.exc # "none" THEN Raise(extracted_val.exc)
        ELSE IF gt_val.exc # "none" THEN Raise(gt_val.exc)
        ELSE RelErrScoreCF(extracted_val.score, gt_val.score)

CompareItems(extracted, ground_truth) ==
    LET extracted_items == len(Or(Get(extracted, "items"), List(0)))
        gt_items == len(Or(Get(ground_truth, "items"), List(0)))
    IN  IF extracted_items.exc # "none" THEN Raise(extracted_items.exc)
        ELSE IF gt_items.exc # "none" THEN Raise(gt_items.exc)
        ELSE RelErrScoreCF(extracted_items.score, gt_items.score)

ScoreKeys == {"merchant_name_accuracy", "date_accuracy", "payment_method_accuracy",
              "total_amount_accuracy", "subtotal_amount_accuracy",
              "items_count_accuracy"}

\* the returned mapping; exc names the exception when the call raises
compare_fields(dir, extracted, receipt_id) ==
    LET ground_truth == load_ground_truth(dir, receipt_id)
        steps == <<CompareString(extracted, ground_truth, "merchant_name"),
                   CompareString(extracted, ground_truth, "date"),
                   CompareString(extracted, ground_truth, "payment_method"),
                   CompareNumeric(extracted, ground_truth, "total_amount"),
                   CompareNumeric(extracted, ground_truth, "subtotal_amount"),
                   CompareItems(extracted, ground_truth)>>
        key == <<"merchant_name_accuracy", "date_accuracy", "payment_method_accuracy",
                 "total_amount_accuracy", "subtotal_amount_accuracy",
                 "items_count_accuracy">>
    IN  IF ~DictTruthy(ground_truth)
        THEN [exc |-> "none", results |-> [k \in {} |-> RatZero]]
        ELSE IF FirstExc(steps) # "none"
        THEN [exc |-> FirstExc(steps), results |-> [k \in {} |-> RatZero]]
        ELSE [exc |-> "none",
              results |-> [k \in ScoreKeys |->
                             steps[CHOOSE i \in 1..6 : key[i] = k].score]]

(* ------------- PromptTuningHarness.evaluate_field_accuracy ------------- *)
\* evaluate_field_accuracy without the early return on equal arguments
evaluate_field_accuracy_NoShortcut(extracted, ground_truth, field_name) ==
    IF IsStr(extracted) /\ IsStr(ground_truth)
    THEN Ok(ratio(lower(extracted.s), lower(ground_truth.s)))
    ELSE IF IsNum(extracted) /\ IsNum(ground_truth)
    THEN IF ground_truth.n = 0
         THEN Ok(IF extracted.n = 0 THEN RatOne ELSE RatZero)
         ELSE ClampedScore(Div(Abs(extracted.n - ground_truth.n), Abs(ground_truth.n)))
    ELSE Ok(RatZero)

evaluate_field_accuracy(extracted, ground_truth, field_name) ==
    IF extracted = ground_truth THEN Ok(RatOne)
    ELSE IF IsStr(extracted) /\ IsStr(ground_truth)
    THEN Ok(ratio(lower(extracted.s), lower(ground_truth.s)))
    ELSE IF IsNum(extracted) /\ IsNum(ground_truth)
    THEN IF ground_truth.n = 0
         THEN Ok(IF extracted.n = 0 THEN RatOne ELSE RatZero)
         ELSE ClampedScore(Div(Abs(extracted.n - ground_truth.n), Abs(ground_truth.n)))
    ELSE Ok(RatZero)

(* --------------- PromptTuningHarness.evaluate_extraction --------------- *)
\* ItemsAcc dividing by items_gt + 1 instead of max(items_gt, 1)
ItemsAcc_PlusOne(items_extracted, items_gt) ==
    IF items_extracted = items_gt THEN Ok(RatOne)
    ELSE ClampedScore(Div(Abs(items_extracted - items_gt), items_gt + 1))

\* 1.0 if equal else max(0, 1 - abs(items_extracted - items_gt) / max(items_gt, 1))
ItemsAcc(items_extracted, items_gt) ==
    IF items_extracted = items_gt THEN Ok(RatOne)
    ELSE ClampedScore(Div(Abs(items_extracted - items_gt),
                          IF items_gt > 1 THEN items_gt ELSE 1))

\* MathValid with the tolerance removed: subtotal + tax == total
MathValid_Exact(extracted_json) ==
    LET subtotal == GetDefault(extracted_json, "subtotal_amount", Num(0))
        tax == GetDefault(extracted_json, "tax_amount", Num(0))
        total == GetDefault(extracted_json, "total_amount", Num(0))
    IN  IF IsNum(subtotal) /\ IsNum(tax) /\ IsNum(total)
        THEN Ok((subtotal.n + tax.n) - total.n = 0)
        ELSE Raise("TypeError")

\* abs((subtotal + tax) - total) < 0.01; the arithmetic raises on a non number
MathValid(extracted_json) ==
    LET subtotal == GetDefault(extracted_json, "subtotal_amount", Num(0))
        tax == GetDefault(extracted_json, "tax_amount", Num(0))
        total == GetDefault(extracted_json, "total_amount", Num(0))
    IN  IF IsNum(subtotal) /\ IsNum(tax) /\ IsNum(total)
        THEN Ok(100 * Abs((subtotal.n + tax.n) - total.n) < Unit)
        ELSE Raise("TypeError")

\* keys of vs_gpt4o: the compared keys on which the two outputs differ
Differences(extracted_json, gpt4o_json) ==
    {key \in {"merchant_name", "date", "total_amount"} :
        Get(extracted_json, key) # Get(gpt4o_json, key)}

NoEvaluation ==
    [exc |-> "none", version |-> "", receipt_id |-> "",
     merchant_accuracy |-> RatZero, date_accuracy |-> RatZero,
     items_count_accuracy |-> RatZero, total_amount_accuracy |-> RatZero,
     math_validation |-> FALSE, vs_gpt4o |-> {}, processing_time |-> 0,
     output_valid_json |-> FALSE]

\* the returned PromptEvaluation; exc names the exception when the call raises
evaluate_extraction(dir, receipt_id, extracted_json, gpt4o_json, processing_time, version) ==
    LET ground_truth == load_ground_truth(dir, receipt_id)
        merchant_acc == evaluate_field_accuracy(
                            GetDefault(extracted_json, "merchant_name", Str(<<>>)),
                            GetDefault(ground_truth, "merchant_name", Str(<<>>)),
                            "merchant_name")
        date_acc == evaluate_field_accuracy(
                            GetDefault(extracted_json, "date", Str(<<>>)),
                            GetDefault(ground_truth, "date", Str(<<>>)),
                            "date")
        items_extracted == len(GetDefault(extracted_json, "items", List(0)))
        items_gt == len(GetDefault(ground_truth, "items", List(0)))
        total_acc == evaluate_field_accuracy(
                            GetDefault(extracted_json, "total_amount", Num(0)),
                            GetDefault(ground_truth, "total_amount", Num(0)),
                            "total_amount")
        items_acc == IF items_extracted.exc # "none" THEN items_extracted
                     ELSE IF items_gt.exc # "none" THEN items_gt
                     ELSE ItemsAcc(items_extracted.score, items_gt.score)
        math_valid == MathValid(extracted_json)
        exc == FirstExc(<<merchant_acc, date_acc, items_acc, total_acc, math_valid>>)
    IN  IF exc # "none" THEN [NoEvaluation EXCEPT !.exc = exc]
        ELSE [exc |-> "none", version |-> version, receipt_id |-> receipt_id,
              merchant_accuracy |-> merchant_acc.score,
              date_accuracy |-> date_acc.score,
              items_count_accuracy |-> items_acc.score,
              total_amount_accuracy |-> total_acc.score,
              math_validation |-> math_valid.score,
              vs_gpt4o |-> Differences(extracted_json, gpt4o_json),
              processing_time |-> processing_time,
              output_valid_json |-> TRUE]

(* ---------- PromptTuningHarness.generate_evaluation_report ------------- *)
RECURSIVE RatSum(_)
RatSum(xs) == IF xs = <<>> THEN RatZero ELSE RatAdd(Head(xs), RatSum(Tail(xs)))

\* statistics.mean(values), values not empty
mean(values) == RatMul(RatSum(values), Rat(1, Len(values)))

\* statistics.variance(values), the square of statistics.stdev(values), Len > 1
variance(values) ==
    LET m == mean(values)
        sq == [i \in 1..Len(values) |->
                 RatMul(RatSub(values[i], m), RatSub(values[i], m))]
    IN  RatMul(RatSum(sq), Rat(1, Len(values) - 1))

\* sum(1 for e in evals if e.math_validation), likewise output_valid_json
CountMathValid(evals) == Cardinality({i \in 1..Len(evals) : evals[i].math_validation})
CountValidJson(evals) == Cardinality({i \in 1..Len(evals) : evals[i].output_valid_json})

MetricNames == {"merchant_accuracy", "date_accuracy", "items_count_accuracy",
                "total_amount_accuracy"}

\* VersionReport reporting the mean as the deviation of a single value
VersionReport_StdIsMean(v, evals) ==
    LET metric(m) == [i \in 1..Len(evals) |-> evals[i][m]]
    IN  [version |-> v,
         receipts_tested |-> Len(evals),
         avg |-> [m \in MetricNames |-> mean(metric(m))],
         std_sq |-> [m \in MetricNames |->
                       IF Len(evals) > 1 THEN variance(metric(m))
                       ELSE mean(metric(m))],
         math_validation |-> CountMathValid(evals),
         valid_json |-> CountValidJson(evals),
         avg_time |-> mean([i \in 1..Len(evals) |-> Rat(evals[i].processing_time, 1)])]

\* the section of the report for one version; std_sq is the squared "±" value
VersionReport(v, evals) ==
    LET metric(m) == [i \in 1..Len(evals) |-> evals[i][m]]
    IN  [version |-> v,
         receipts_tested |-> Len(evals),
         avg |-> [m \in MetricNames |-> mean(metric(m))],
         std_sq |-> [m \in MetricNames |->
                       IF Len(evals) > 1 THEN variance(metric(m)) ELSE RatZero],
         math_validation |-> CountMathValid(evals),
         valid_json |-> CountValidJson(evals),
         avg_time |-> mean([i \in 1..Len(evals) |-> Rat(evals[i].processing_time, 1)])]

NoReport == [text |-> "", sections |-> <<>>]

\* by_version putting every evaluation into every group
by_version_All(evals, v) == evals

\* by_version[v]: the evaluations of version v, in the order of the list
by_version(evals, v) == SelectSeq(evals, LAMBDA e : e.version = v)

\* generate_evaluation_report with the sections in by_version.keys() order
generate_evaluation_report_Unsorted(evals) ==
    IF evals = <<>> THEN [text |-> "No evaluations to report.", sections |-> <<>>]
    ELSE LET RECURSIVE FirstSeen(_)
             FirstSeen(es) ==
                 IF es = <<>> THEN <<>>
                 ELSE LET init == FirstSeen(SubSeq(es, 1, Len(es) - 1))
                          v == es[Len(es)].version
                      IN  IF \E i \in 1..Len(init) : init[i] = v THEN init
                          ELSE Append(init, v)
             keys == FirstSeen(evals)
         IN  [text |-> "PROMPT TUNING EVALUATION REPORT",
              sections |-> [i \in 1..Len(keys) |->
                              VersionReport(keys[i], by_version(evals, keys[i]))]]

\* the report: its sections in sorted(by_version.keys()) order, with the
\* numbers exact (the text prints them rounded to three decimals)
generate_evaluation_report(evals) ==
    IF evals = <<>> THEN [text |-> "No evaluations to report.", sections |-> <<>>]
    ELSE LET keys == SelectSeq(VersionList, LAMBDA v : by_version(evals, v) # <<>>)
         IN  [text |-> "PROMPT TUNING EVALUATION REPORT",
              sections |-> [i \in 1..Len(keys) |->
                              VersionReport(keys[i], by_version(evals, keys[i]))]]

(* ------------------- test_prompts_on_samples ---------------------------- *)
\* avg_accuracy dividing by one more than the number of scores
avg_accuracy_OffByOne(comparison) ==
    IF DOMAIN comparison = {} THEN RatZero
    ELSE LET ks == DOMAIN comparison
             RECURSIVE SumOver(_)
             SumOver(S) == IF S = {} THEN RatZero
                           ELSE LET k == CHOOSE x \in S : TRUE
                                IN  RatAdd(comparison[k], SumOver(S \ {k}))
         IN  RatMul(SumOver(ks), Rat(1, Cardinality(ks) + 1))

\* sum(comparison.values()) / len(comparison) if comparison else 0
avg_accuracy(comparison) ==
    IF DOMAIN comparison = {} THEN RatZero
    ELSE LET ks == DOMAIN comparison
             RECURSIVE SumOver(_)
             SumOver(S) == IF S = {} THEN RatZero
                           ELSE LET k == CHOOSE x \in S : TRUE
                                IN  RatAdd(comparison[k], SumOver(S \ {k}))
         IN  RatMul(SumOver(ks), Rat(1, Cardinality(ks)))

NoEntry == [set |-> FALSE, extraction |-> EmptyRec,
            comparison |-> [k \in {} |-> RatZero], avg_accuracy |-> RatZero]

\* max(versions, key=versions.get): the first version, in insertion order,
\* whose accuracy no other version exceeds
MaxVersion(versions) ==
    LET i == CHOOSE i \in 1..Len(VersionList) :
                /\ \A j \in 1..Len(VersionList) :
                      RatLE(versions[VersionList[j]], versions[VersionList[i]])
                /\ \A j \in 1..(i - 1) :
                      RatLT(versions[VersionList[j]], versions[VersionList[i]])
    IN  VersionList[i]

(* ------------- GroundTruthComparator.generate_report ------------------- *)
\* the block of the report for one receipt; avg_accuracy is exact (the text
\* prints it as a percentage with one decimal)
ReportEntry(receipt_id, scores) ==
    IF DOMAIN scores = {}
    THEN [receipt_id |-> receipt_id, text |-> "No ground truth data",
          avg_accuracy |-> RatZero, fields |-> scores]
    ELSE [receipt_id |-> receipt_id, text |-> "Average accuracy",
          avg_accuracy |-> avg_accuracy(scores), fields |-> scores]

NoComparisonReport == [text |-> "", entries |-> <<>>]

\* comparisons is the sequence of (receipt_id, scores) in insertion order
generate_report(comparisons) ==
    [text |-> "GROUND TRUTH COMPARISON REPORT",
     entries |-> [i \in 1..Len(comparisons) |->
                    ReportEntry(comparisons[i][1], comparisons[i][2])]]

(* --------------- tune_deepseek_to_gpt: compare_json_outputs ------------ *)
\* str(v).lower() of a top-level value: a string is itself, None is "None";
\* no other kind occurs under the top-level keys of the outputs modelled
LowerStrOf(v) ==
    CASE v.t = "str" -> lower(v.s)
      [] v.t = "none" -> <<"n", "o", "n", "e">>
      [] v.t = "absent" -> <<>>

\* int(round(100 * n / d)), round half to even
RoundPercent(n, d) ==
    LET q == (100 * n) \div d
        r == (100 * n) % d
    IN  IF 2 * r < d THEN q
        ELSE IF 2 * r > d THEN q + 1
        ELSE IF q % 2 = 0 THEN q ELSE q + 1

\* fuzzywuzzy.fuzz.ratio: 100 on equal strings, 0 when one is empty, else the
\* rounded percentage of SequenceMatcher.ratio()
fuzz_ratio(s1, s2) ==
    IF s1 = s2 THEN 100
    ELSE IF Len(s1) = 0 \/ Len(s2) = 0 THEN 0
    ELSE RoundPercent(2 * matches(s1, s2, 0, Len(s1), 0, Len(s2)), Len(s1) + Len(s2))

\* [item.get('description', '') for item in json.get('items', [])] as the set
\* of the descriptions: the list of length n holds the first n line items of
\* the receipt, named 1..n; iterating anything but a list of items raises
ItemDescriptions(json) ==
    LET v == GetDefault(json, "items", List(0))
    IN  CASE v.t = "list" -> [exc |-> "none", set |-> 1..v.n]
          [] v.t = "str" -> IF v.s = <<>> THEN [exc |-> "none", set |-> {}]
                            ELSE [exc |-> "AttributeError", set |-> {}]
          [] OTHER -> [exc |-> "TypeError", set |-> {}]

TopLevelKeys == Fields \ {"items"}

\* the similarity in [0, 1] of the DeepSeek output to the GPT-4o mini output
compare_json_outputs(gpt4o_json, deepseek_json) ==
    LET keys == {k \in TopLevelKeys : gpt4o_json[k] # Absent}
        fieldScore == [k \in keys |->
                         Rat(fuzz_ratio(LowerStrOf(gpt4o_json[k]),
                                        LowerStrOf(deepseek_json[k])), 100)]
        gpt_items == ItemDescriptions(gpt4o_json)
        ds_items == ItemDescriptions(deepseek_json)
        num_fields == Cardinality(keys) + (IF gpt_items.set # {} THEN 1 ELSE 0)
        itemScore == IF gpt_items.set # {}
                     THEN Rat(Cardinality(gpt_items.set \cap ds_items.set),
                              Cardinality(gpt_items.set))
                     ELSE RatZero
        RECURSIVE SumOver(_)
        SumOver(S) == IF S = {} THEN RatZero
                      ELSE LET k == CHOOSE x \in S : TRUE
                           IN  RatAdd(fieldScore[k], SumOver(S \ {k}))
    IN  IF ~DictTruthy(gpt4o_json) \/ ~DictTruthy(deepseek_json) THEN Ok(RatZero)
        ELSE IF gpt_items.exc # "none" THEN Raise(gpt_items.exc)
        ELSE IF ds_items.exc # "none" THEN Raise(ds_items.exc)
        ELSE IF num_fields = 0 THEN Ok(RatZero)
        ELSE Ok(RatMul(RatAdd(SumOver(keys), itemScore), Rat(1, num_fields)))

(* ------------------ tune_deepseek_to_gpt: the summary ------------------ *)
\* the sequence without its i-th entry
Without(items, i) == SubSeq(items, 1, i - 1) \o SubSeq(items, i + 1, Len(items))

\* NextRanked taking, among the entries of maximal similarity, the last
NextRanked_Last(items) ==
    CHOOSE i \in 1..Len(items) :
       /\ \A j \in 1..Len(items) :
             RatLE(items[j].similarity_to_gpt4o, items[i].similarity_to_gpt4o)
       /\ \A j \in (i + 1)..Len(items) :
             RatLT(items[j].similarity_to_gpt4o, items[i].similarity_to_gpt4o)

\* index of the entry a stable descending sort puts first: the first of the
\* entries of maximal similarity
NextRanked(items) ==
    CHOOSE i \in 1..Len(items) :
       /\ \A j \in 1..Len(items) :
             RatLE(items[j].similarity_to_gpt4o, items[i].similarity_to_gpt4o)
       /\ \A j \in 1..(i - 1) :
             RatLT(items[j].similarity_to_gpt4o, items[i].similarity_to_gpt4o)

\* sorted(versions.items(), key=similarity_to_gpt4o, reverse=True): descending,
\* and the sort is stable, so entries of equal similarity keep their order
RECURSIVE sorted_versions(_)
sorted_versions(items) ==
    IF items = <<>> THEN <<>>
    ELSE <<items[NextRanked(items)]>>
            \o sorted_versions(Without(items, NextRanked(items)))

\* PrintedRanking starring the last of the sorted entries
PrintedRanking_MarksLast(items) ==
    LET sorted == sorted_versions(items)
    IN  [i \in 1..Len(sorted) |->
           [marker |-> (i = Len(sorted)), version |-> sorted[i].version,
            score |-> sorted[i].similarity_to_gpt4o]]

\* the lines printed for one receipt: the first of the sorted entries is starred
PrintedRanking(items) ==
    LET sorted == sorted_versions(items)
    IN  [i \in 1..Len(sorted) |->
           [marker |-> (i = 1), version |-> sorted[i].version,
            score |-> sorted[i].similarity_to_gpt4o]]

(* ------------------------------- state --------------------------------- *)
VARIABLES
    ground_truth_dir,   \* receipt id -> ground truth file
    receipt_id,         \* arguments of the call under way
    extracted,          \* the record scored; in SpecGpt the DeepSeek output
    gpt4o_json,         \* the output of the GPT-4o mini stage
    version,
    processing_time,
    field_name,         \* the field the inputs vary
    pc,                 \* position of the caller
    scores,             \* returned by compare_fields
    field_accuracy,     \* returned by evaluate_field_accuracy
    evaluation,         \* returned by evaluate_extraction
    evaluations,        \* the evaluations collected for the report
    report,             \* returned by generate_evaluation_report
    ocr_results,        \* test_prompts_on_samples: receipts whose image exists
    remaining,          \* (receipt, version) pairs the loops have yet to test
    all_results,        \* receipt -> version -> extraction, comparison, average
    best_version,       \* receipt -> version marked best in the summary
    processor,          \* whether ollama can be imported, what the processor raised
    comparison_report,  \* returned by generate_report
    sample_images,      \* tune_deepseek_to_gpt: the files find_receipt_files found
    tune_results,       \* its all_results: receipt -> entries in insertion order
    temp_image_file,    \* name of the temporary image of a PDF, "" for None
    temp_dir,           \* temporary files on disk
    summary,            \* what the summary printed and saved
    available,          \* stage name -> the flag its constructor set
    image_path,         \* argument of process_receipt: <<stem, suffix>>
    google_vision_stage, \* the PipelineStage each stage returned
    gpt4o_mini_stage,
    deepseek_r1_stage,
    stage_calls,        \* the process calls made, with their arguments
    prompt,             \* the prompt last sent to DeepSeek R1
    receipt_result      \* the ReceiptProcessingResult returned

vars == <<ground_truth_dir, receipt_id, extracted, gpt4o_json, version,
          processing_time, field_name, pc, scores, field_accuracy, evaluation,
          evaluations, report, ocr_results, remaining, all_results, best_version,
          processor, comparison_report, sample_images, tune_results, temp_image_file,
          temp_dir, summary, available, image_path, google_vision_stage,
          gpt4o_mini_stage, deepseek_r1_stage, stage_calls, prompt, receipt_result>>

\* state of the harness report and of test_prompts_on_samples
harness == <<evaluations, report>>
samples == <<ocr_results, remaining, all_results, best_version, processor>>
tuner == <<sample_images, tune_results, temp_image_file, temp_dir, summary>>
pipeline == <<available, image_path, google_vision_stage, gpt4o_mini_stage,
              deepseek_r1_stage, stage_calls, prompt, receipt_result>>

inputs == <<ground_truth_dir, receipt_id, extracted, gpt4o_json, version,
            processing_time, field_name>>

NoScores == [exc |-> "none", results |-> [k \in {} |-> RatZero]]
NoTuneResults == [r \in ReceiptIds |-> [started |-> FALSE, versions |-> <<>>]]
NoSummary == [printed |-> FALSE, receipts |-> <<>>, saved |-> FALSE]

\* tune_deepseek_to_gpt has not run
TunerIdle ==
    /\ sample_images = <<>>
    /\ tune_results = NoTuneResults
    /\ temp_image_file = ""
    /\ temp_dir = {}
    /\ summary = NoSummary

NoStage == [stage_name |-> "", input_data |-> <<>>, output_data |-> <<>>,
            processing_time |-> 0, tokens_used |-> None, cost |-> None, error |-> <<>>]
NoPrompt == [template |-> "", raw_ocr_text |-> <<>>, gpt4o_json |-> EmptyRec]
NoResult == [receipt_id |-> "", image_path |-> <<>>, final_json |-> EmptyRec,
             total_processing_time |-> 0, total_cost |-> 0]

\* process_receipt has not run
PipelineIdle ==
    /\ available = [n \in {"google_vision", "gpt4o_mini", "deepseek_r1"} |-> FALSE]
    /\ image_path = <<>>
    /\ google_vision_stage = NoStage
    /\ gpt4o_mini_stage = NoStage
    /\ deepseek_r1_stage = NoStage
    /\ stage_calls = <<>>
    /\ prompt = NoPrompt
    /\ receipt_result = NoResult

\* ground truth loaded for the call under way
ground_truth == load_ground_truth(ground_truth_dir, receipt_id)

(* ------------- scoring one extracted record (Spec) --------------------- *)
\* Inputs: a record pair (extracted, ground truth) that differs from a
\* background pair in one field, which takes every value on each side; the
\* ground truth file may be missing. The backgrounds are {}, a well formed
\* receipt, and the example of compare_with_ground_truth.py.
Backgrounds == {<<EmptyRec, EmptyRec>>, <<BaseRec, BaseRec>>,
                <<ExampleExtracted, ExampleGroundTruth>>}

\* a merchant name long enough for the automatic junk heuristic of
\* SequenceMatcher to apply to it: LongLen times the letter a
LongName == Str([n \in 1..LongLen |-> "a"])

\* the ground truth takes every short value in the varied field, and the
\* long merchant name against every extracted string of a well formed receipt
Init ==
    /\ \E bg \in Backgrounds, f \in Fields, ev \in Values :
       \E gv \in Values \cup (IF bg = <<BaseRec, BaseRec>> /\ f = "merchant_name"
                                   /\ IsStr(ev)
                                THEN {LongName} ELSE {}) :
          /\ field_name = f
          /\ extracted = [bg[1] EXCEPT ![f] = ev]
          /\ gpt4o_json = bg[1]
          /\ \E file \in {NoFile, File([bg[2] EXCEPT ![f] = gv])} :
                ground_truth_dir = [r \in ReceiptIds |->
                                       IF r = "r1" THEN file ELSE NoFile]
    /\ receipt_id = "r1"
    /\ version = "v1"
    /\ processing_time = 1
    /\ pc = "ready"
    /\ scores = NoScores
    /\ field_accuracy = Ok(RatZero)
    /\ evaluation = NoEvaluation
    /\ evaluations = <<>>
    /\ report = NoReport
    /\ ocr_results = {}
    /\ processor = [ollama |-> FALSE, exc |-> "none"]
    /\ remaining = <<>>
    /\ all_results = [r \in ReceiptIds |-> [v \in Versions |-> NoEntry]]
    /\ best_version = [r \in ReceiptIds |-> ""]
    /\ comparison_report = NoComparisonReport
    /\ TunerIdle
    /\ PipelineIdle

CompareFields ==
    /\ pc = "ready"
    /\ scores' = compare_fields(ground_truth_dir, extracted, receipt_id)
    /\ pc' = "compared"
    /\ UNCHANGED <<inputs, field_accuracy, evaluation, harness, samples, comparison_report, tuner, pipeline>>

\* evaluate_field_accuracy on the two values of the varied field
EvaluateFieldAccuracy ==
    /\ pc = "ready"
    /\ extracted[field_name] # Absent
    /\ ground_truth[field_name] # Absent
    /\ field_accuracy' = evaluate_field_accuracy(extracted[field_name],
                                                 ground_truth[field_name], field_name)
    /\ pc' = "scored"
    /\ UNCHANGED <<inputs, scores, evaluation, harness, samples, comparison_report, tuner, pipeline>>

EvaluateExtraction ==
    /\ pc = "ready"
    /\ evaluation' = evaluate_extraction(ground_truth_dir, receipt_id, extracted,
                                         gpt4o_json, processing_time, version)
    /\ pc' = "evaluated"
    /\ UNCHANGED <<inputs, scores, field_accuracy, harness, samples, comparison_report, tuner, pipeline>>

\* generate_report on the comparison of the receipt just compared
GenerateReport ==
    /\ pc = "compared"
    /\ scores.exc = "none"
    /\ comparison_report' = generate_report(<<<<receipt_id, scores.results>>>>)
    /\ pc' = "report_generated"
    /\ UNCHANGED <<inputs, scores, field_accuracy, evaluation, harness, samples, tuner, pipeline>>

Next == CompareFields \/ EvaluateFieldAccuracy \/ EvaluateExtraction \/ GenerateReport

Spec == Init /\ [][Next]_vars

(* -------- collecting evaluations and reporting (SpecTuning) ------------ *)
\* outputs of the model under test handed to the harness
ExtractionSamples == {EmptyRec, [BaseRec EXCEPT !["total_amount"] = Num(3)]}
TunedVersions == {"v1", "v2"}

InitTuning ==
    /\ ground_truth_dir \in [ReceiptIds -> {NoFile, File(BaseRec)}]
    /\ receipt_id = "r1"
    /\ extracted = EmptyRec
    /\ gpt4o_json = BaseRec
    /\ version = "v1"
    /\ processing_time = 1
    /\ field_name = "merchant_name"
    /\ pc = "collecting"
    /\ scores = NoScores
    /\ field_accuracy = Ok(RatZero)
    /\ evaluation = NoEvaluation
    /\ evaluations = <<>>
    /\ report = NoReport
    /\ ocr_results = {}
    /\ processor = [ollama |-> FALSE, exc |-> "none"]
    /\ remaining = <<>>
    /\ all_results = [r \in ReceiptIds |-> [v \in Versions |-> NoEntry]]
    /\ best_version = [r \in ReceiptIds |-> ""]
    /\ comparison_report = NoComparisonReport
    /\ TunerIdle
    /\ PipelineIdle

\* one evaluate_extraction call whose result the caller appends to its list
CollectEvaluation ==
    /\ pc = "collecting"
    /\ Len(evaluations) < MaxEvals
    /\ \E r \in ReceiptIds, v \in TunedVersions, e \in ExtractionSamples :
          \* the seconds the output took: the empty output 1, the full one 2
          LET t == IF e = EmptyRec THEN 1 ELSE 2
              ev == evaluate_extraction(ground_truth_dir, r, e, gpt4o_json, t, v)
          IN  /\ receipt_id' = r
              /\ version' = v
              /\ extracted' = e
              /\ processing_time' = t
              /\ evaluation' = ev
              /\ evaluations' = IF ev.exc = "none" THEN Append(evaluations, ev)
                                ELSE evaluations
    /\ UNCHANGED <<ground_truth_dir, gpt4o_json, field_name, pc, scores,
                   field_accuracy, report, samples, comparison_report, tuner, pipeline>>

GenerateEvaluationReport ==
    /\ pc = "collecting"
    /\ report' = generate_evaluation_report(evaluations)
    /\ pc' = "reported"
    /\ UNCHANGED <<inputs, scores, field_accuracy, evaluation, evaluations, samples, comparison_report, tuner, pipeline>>

NextTuning == CollectEvaluation \/ GenerateEvaluationReport

SpecTuning == InitTuning /\ [][NextTuning]_vars

(* ---------- test_prompts_on_samples (SpecSamples) ---------------------- *)
SampleOrder == <<"r1", "r2">>

\* the (receipt, version) pairs in the order of the two nested loops
RECURSIVE Pairs(_, _)
Pairs(rs, present) ==
    IF rs = <<>> THEN <<>>
    ELSE (IF Head(rs) \in present
          THEN [i \in 1..Len(VersionList) |-> <<Head(rs), VersionList[i]>>]
          ELSE <<>>) \o Pairs(Tail(rs), present)

\* Inputs: the sample images that exist, the ground truth files, and whether
\* the ollama package can be imported. The script imports integration_deepseek
\* as a top-level module. The OCR texts have been extracted.
InitSamples ==
    /\ ground_truth_dir \in [ReceiptIds -> {NoFile, File(BaseRec),
                                             File(ExampleGroundTruth)}]
    /\ ocr_results \in SUBSET ReceiptIds
    /\ processor \in [ollama : BOOLEAN, exc : {"none"}]
    /\ remaining = Pairs(SampleOrder, ocr_results)
    /\ receipt_id = "r1"
    /\ extracted = EmptyRec
    /\ gpt4o_json = EmptyRec
    /\ version = "v1"
    /\ processing_time = 1
    /\ field_name = "merchant_name"
    /\ pc = "extracted"
    /\ scores = NoScores
    /\ field_accuracy = Ok(RatZero)
    /\ evaluation = NoEvaluation
    /\ evaluations = <<>>
    /\ report = NoReport
    /\ all_results = [r \in ReceiptIds |-> [v \in Versions |-> NoEntry]]
    /\ best_version = [r \in ReceiptIds |-> ""]
    /\ comparison_report = NoComparisonReport
    /\ TunerIdle
    /\ PipelineIdle

\* DeepSeekOCRProcessor(): _init_client imports ollama and raises again what
\* the import raised, which ends the function before the loops
CreateProcessor ==
    /\ pc = "extracted"
    /\ IF processor.ollama
       THEN pc' = "testing" /\ UNCHANGED processor
       ELSE pc' = "crashed" /\ processor' = [processor EXCEPT !.exc = "ImportError"]
    /\ UNCHANGED <<inputs, scores, field_accuracy, evaluation, harness, ocr_results,
                   remaining, all_results, best_version, comparison_report, tuner,
                   pipeline>>

\* TestPrompt with a process_ocr_text that returns: {} after a failure, or
\* the JSON object parsed from the answer; the pass then compares it with
\* the ground truth and records the entry
TestPrompt_Returns ==
    /\ pc = "testing"
    /\ remaining # <<>>
    /\ receipt_id' = Head(remaining)[1]
    /\ version' = Head(remaining)[2]
    /\ \E result \in {EmptyRec, BaseRec, [BaseRec EXCEPT !["merchant_name"] = Num(1)]} :
          LET r == Head(remaining)[1]
              v == Head(remaining)[2]
              comparison == compare_fields(ground_truth_dir, result, r)
          IN  /\ extracted' = result
              /\ scores' = comparison
              /\ IF comparison.exc # "none"
                 THEN /\ pc' = "crashed"
                      /\ UNCHANGED <<remaining, all_results>>
                 ELSE /\ all_results' =
                            [all_results EXCEPT ![r][v] =
                               [set |-> TRUE, extraction |-> result,
                                comparison |-> comparison.results,
                                avg_accuracy |-> avg_accuracy(comparison.results)]]
                      /\ remaining' = Tail(remaining)
                      /\ pc' = "testing"
    /\ UNCHANGED <<ground_truth_dir, gpt4o_json, processing_time, field_name,
                   field_accuracy, evaluation, harness, ocr_results, best_version,
                   processor, comparison_report, tuner, pipeline>>

\* the first pass of the inner loop. process_ocr_text starts with
\* "from .prompt_templates import PromptTemplates", outside its try block;
\* integration_deepseek is a top-level module, so the statement raises
\* ImportError and the function ends: nothing is compared, recorded or saved
TestPrompt ==
    /\ pc = "testing"
    /\ remaining # <<>>
    /\ receipt_id' = Head(remaining)[1]
    /\ version' = Head(remaining)[2]
    /\ processor' = [processor EXCEPT !.exc = "ImportError"]
    /\ pc' = "crashed"
    /\ UNCHANGED <<ground_truth_dir, extracted, gpt4o_json, processing_time,
                   field_name, scores, field_accuracy, evaluation, harness,
                   ocr_results, remaining, all_results, best_version,
                   comparison_report, tuner, pipeline>>

\* the summary loop, reached when no pass was made: the best version of
\* every receipt in all_results
Summarize ==
    /\ pc = "testing"
    /\ remaining = <<>>
    /\ best_version' =
          [r \in ReceiptIds |->
             IF r \in ocr_results
             THEN MaxVersion([v \in Versions |-> all_results[r][v].avg_accuracy])
             ELSE ""]
    /\ pc' = "done"
    /\ UNCHANGED <<inputs, scores, field_accuracy, evaluation, harness,
                   ocr_results, remaining, all_results, processor, comparison_report,
                   tuner, pipeline>>

NextSamples == CreateProcessor \/ TestPrompt \/ Summarize

SpecSamples == InitSamples /\ [][NextSamples]_vars

(* ---------------- tune_deepseek_to_gpt (SpecGpt) ------------------------ *)
\* outputs of the GPT-4o mini stage: {} on failure, or a JSON object
GptRec == [EmptyRec EXCEPT !["merchant_name"] = Str(<<"a">>),
                           !["date"] = Str(<<"1">>),
                           !["items"] = List(2)]
GptOutputs == {EmptyRec, GptRec,
               [EmptyRec EXCEPT !["merchant_name"] = Str(<<"a", "A">>),
                                !["items"] = None]}

\* JSON objects parsed from the answer of DeepSeek
DeepSeekOutputs ==
    {[GptRec EXCEPT !["date"] = None, !["items"] = List(1)]}

\* process_receipt: the output_data of the GPT-4o mini stage and of the
\* DeepSeek stage, which falls back to the GPT-4o mini output
PipelineOutcomes ==
    {[gpt4o |-> g, deepseek |-> d] : g \in GptOutputs, d \in DeepSeekOutputs}
    \cup {[gpt4o |-> g, deepseek |-> g] : g \in GptOutputs}

\* what find_receipt_files may return: receipts in the order of the directory
\* listing, each with the suffix of its file and whether the file still exists
SampleImage(r, suffix, exists) == [receipt_id |-> r, suffix |-> suffix, exists |-> exists]
SampleImageLists ==
    {<<>>}
    \cup {<<SampleImage(r, x, e)>> : r \in ReceiptIds, x \in {".png", ".pdf"}, e \in BOOLEAN}
    \cup UNION {{<<SampleImage(r, x, e), SampleImage(q, ".png", TRUE)>> :
                    q \in ReceiptIds \ {r}} :
                 r \in ReceiptIds, x \in {".png", ".pdf"}, e \in BOOLEAN}

\* name of the file NamedTemporaryFile(suffix=".png", delete=False) creates
TempName == "tmp.png"
PdfOutcomes == {"converted", "no_images", "convert_raised", "tempfile_raised"}

InitGpt ==
    /\ sample_images \in SampleImageLists
    /\ tune_results = NoTuneResults
    /\ temp_image_file = ""
    /\ temp_dir = {}
    /\ summary = NoSummary
    /\ PipelineIdle
    /\ pc = "tune_start"
    /\ ground_truth_dir = [r \in ReceiptIds |-> File(BaseRec)]
    /\ receipt_id = "r1"
    /\ extracted = EmptyRec
    /\ gpt4o_json = EmptyRec
    /\ version = "v1"
    /\ processing_time = 1
    /\ field_name = "merchant_name"
    /\ scores = NoScores
    /\ field_accuracy = Ok(RatZero)
    /\ evaluation = NoEvaluation
    /\ evaluations = <<>>
    /\ report = NoReport
    /\ ocr_results = {}
    /\ processor = [ollama |-> FALSE, exc |-> "none"]
    /\ remaining = <<>>
    /\ all_results = [r \in ReceiptIds |-> [v \in Versions |-> NoEntry]]
    /\ best_version = [r \in ReceiptIds |-> ""]
    /\ comparison_report = NoComparisonReport

fixedGpt == <<ground_truth_dir, processing_time, field_name, scores, field_accuracy,
              evaluation, harness, ocr_results, all_results, best_version,
              processor, comparison_report, sample_images, pipeline>>

\* no receipt found: the function returns before the loop and the summary
TuneNoSamples ==
    /\ pc = "tune_start"
    /\ sample_images = <<>>
    /\ pc' = "tune_returned"
    /\ UNCHANGED <<fixedGpt, receipt_id, extracted, gpt4o_json, version, remaining,
                   tune_results, temp_image_file, temp_dir, summary>>

\* the file of the first receipt is gone: the loop skips it and ends
TuneSkipMissing ==
    /\ pc = "tune_start"
    /\ sample_images # <<>>
    /\ ~Head(sample_images).exists
    /\ receipt_id' = Head(sample_images).receipt_id
    /\ pc' = "tune_summary"
    /\ UNCHANGED <<fixedGpt, extracted, gpt4o_json, version, remaining,
                   tune_results, temp_image_file, temp_dir, summary>>

\* the first receipt: its entry in all_results, and the conversion of a PDF
TuneBeginReceipt ==
    /\ pc = "tune_start"
    /\ sample_images # <<>>
    /\ Head(sample_images).exists
    /\ LET r == Head(sample_images).receipt_id
           versions == [i \in 1..Len(VersionList) |-> <<r, VersionList[i]>>]
       IN  /\ receipt_id' = r
           /\ tune_results' = [tune_results EXCEPT ![r] = [started |-> TRUE,
                                                           versions |-> <<>>]]
           /\ IF Head(sample_images).suffix = ".pdf"
              THEN \E outcome \in PdfOutcomes :
                      /\ temp_image_file' =
                            IF outcome = "tempfile_raised" THEN "" ELSE TempName
                      /\ temp_dir' =
                            IF outcome = "tempfile_raised" THEN temp_dir
                            ELSE temp_dir \cup {TempName}
                      /\ IF outcome = "converted"
                         THEN pc' = "tune_versions" /\ remaining' = versions
                         ELSE pc' = "tune_summary" /\ remaining' = remaining
              ELSE /\ pc' = "tune_versions"
                   /\ remaining' = versions
                   /\ UNCHANGED <<temp_image_file, temp_dir>>
    /\ UNCHANGED <<fixedGpt, extracted, gpt4o_json, version, summary>>

\* one prompt version: run the pipeline, compare the two outputs, record
TuneVersion ==
    /\ pc = "tune_versions"
    /\ remaining # <<>>
    /\ \E result \in PipelineOutcomes :
          LET v == Head(remaining)[2]
              similarity_score == compare_json_outputs(result.gpt4o, result.deepseek)
          IN  /\ version' = v
              /\ gpt4o_json' = result.gpt4o
              /\ extracted' = result.deepseek
              /\ IF similarity_score.exc # "none"
                 THEN /\ pc' = "tune_crashed"
                      /\ UNCHANGED <<remaining, tune_results>>
                 ELSE /\ tune_results' =
                            [tune_results EXCEPT ![receipt_id].versions =
                               Append(@, [version |-> v,
                                          similarity_to_gpt4o |-> similarity_score.score,
                                          gpt4o_json |-> result.gpt4o,
                                          deepseek_json |-> result.deepseek])]
                      /\ remaining' = Tail(remaining)
                      /\ pc' = "tune_versions"
    /\ UNCHANGED <<fixedGpt, receipt_id, temp_image_file, temp_dir, summary>>

\* after the last version: remove the temporary image, leave the loop
TuneCleanup ==
    /\ pc = "tune_versions"
    /\ remaining = <<>>
    /\ temp_dir' = IF temp_image_file # "" THEN temp_dir \ {temp_image_file}
                   ELSE temp_dir
    /\ pc' = "tune_summary"
    /\ UNCHANGED <<fixedGpt, receipt_id, extracted, gpt4o_json, version, remaining,
                   tune_results, temp_image_file, summary>>

\* the summary: the ranking of every receipt in all_results, then the save
TuneSummary ==
    /\ pc = "tune_summary"
    /\ summary' =
          [printed |-> TRUE,
           receipts |-> IF tune_results[receipt_id].started
                        THEN <<[receipt_id |-> receipt_id,
                                ranking |-> PrintedRanking(
                                               tune_results[receipt_id].versions)]>>
                        ELSE <<>>,
           saved |-> TRUE]
    /\ pc' = "tune_done"
    /\ UNCHANGED <<fixedGpt, receipt_id, extracted, gpt4o_json, version, remaining,
                   tune_results, temp_image_file, temp_dir>>

NextGpt ==
    \/ TuneNoSamples
    \/ TuneSkipMissing
    \/ TuneBeginReceipt
    \/ TuneVersion
    \/ TuneCleanup
    \/ TuneSummary

SpecGpt == InitGpt /\ [][NextGpt]_vars

(* ------ the two summaries that mark a best version (SpecRanking) ------- *)
InitRanking == InitSamples \/ InitGpt
NextRanking == NextSamples \/ NextGpt
SpecRanking == InitRanking /\ [][NextRanking]_vars

(* ---------------------- vocabulary of the claims ----------------------- *)
MoneyFields == {"total_amount", "subtotal_amount"}
StringFieldSet == {"merchant_name", "date", "payment_method"}
AccKey(f) == IF f = "items" THEN "items_count_accuracy"
             ELSE IF f = "merchant_name" THEN "merchant_name_accuracy"
             ELSE IF f = "date" THEN "date_accuracy"
             ELSE IF f = "payment_method" THEN "payment_method_accuracy"
             ELSE IF f = "total_amount" THEN "total_amount_accuracy"
             ELSE "subtotal_amount_accuracy"

\* compare_fields returned a mapping with scores
Compared == pc = "compared" /\ scores.exc = "none" /\ DOMAIN scores.results # {}
\* evaluate_extraction returned an evaluation
Evaluated == pc = "evaluated" /\ evaluation.exc = "none"
\* evaluate_field_accuracy returned a score
Scored == pc = "scored" /\ field_accuracy.exc = "none"

\* a value is missing (key absent or null) or of the kind of its field
Missing(v) == v \in {Absent, None}
OfKind(f, v) ==
    IF f \in StringFieldSet THEN IsStr(v)
    ELSE IF f = "items" THEN IsList(v)
    ELSE IsNum(v)
WellFormed(rec) == \A f \in Fields : Missing(rec[f]) \/ OfKind(f, rec[f])

\* max(0, 1 - |e - g| / |g|) for g # 0
RelativeErrorScore(e, g) == Max0(RatSub(RatOne, Rat(Abs(e - g), Abs(g))))

(* ------------------------------- claims -------------------------------- *)
\* C1: every score produced by compare_fields, evaluate_field_accuracy and
\* evaluate_extraction lies in [0,1], for any values, negative numbers included.
C1_Boundedness ==
    /\ Compared => \A k \in DOMAIN scores.results : InUnit(scores.results[k])
    /\ Scored => InUnit(field_accuracy.score)
    /\ Evaluated => /\ InUnit(evaluation.merchant_accuracy)
                    /\ InUnit(evaluation.date_accuracy)
                    /\ InUnit(evaluation.items_count_accuracy)
                    /\ InUnit(evaluation.total_amount_accuracy)

\* C2: scoring a value against itself gives exactly 1.0: compare_fields on an
\* extracted record equal to the ground truth record returns 1.0 for each of
\* its fields (and returns at all when the record is well formed), and
\* evaluate_field_accuracy(x, x, _) returns 1.0.
C2_Identity ==
    /\ (pc = "compared" /\ extracted = ground_truth /\ DictTruthy(ground_truth)) =>
          /\ WellFormed(extracted) => scores.exc = "none"
          /\ scores.exc = "none" =>
                /\ DOMAIN scores.results = ScoreKeys
                /\ \A k \in ScoreKeys : scores.results[k] = RatOne
    /\ (pc = "scored" /\ extracted[field_name] = ground_truth[field_name]) =>
          field_accuracy = Ok(RatOne)

\* C2 witness: a receipt with a non-zero total and a non-empty merchant was
\* compared with an identical ground truth
C2_Witness ==
    /\ Compared
    /\ extracted = ground_truth
    /\ IsNum(extracted["total_amount"]) /\ extracted["total_amount"].n < 0
    /\ IsStr(extracted["merchant_name"]) /\ extracted["merchant_name"].s # <<>>
    /\ scores.results["total_amount_accuracy"] = RatOne

\* C3: for a money field with a non-zero ground truth g and an extracted
\* number e the score is max(0, 1 - |e - g| / |g|), in compare_fields and in
\* evaluate_field_accuracy.
C3_RelativeError ==
    /\ Compared =>
          \A f \in MoneyFields :
             (IsNum(extracted[f]) /\ IsNum(ground_truth[f]) /\ ground_truth[f].n # 0) =>
                scores.results[AccKey(f)]
                   = RelativeErrorScore(extracted[f].n, ground_truth[f].n)
    /\ (Scored /\ field_name \in MoneyFields /\ IsNum(extracted[field_name])
          /\ IsNum(ground_truth[field_name]) /\ ground_truth[field_name].n # 0) =>
          field_accuracy.score
             = RelativeErrorScore(extracted[field_name].n, ground_truth[field_name].n)

\* C4: when the ground truth of a money field or the ground truth item count
\* is exactly 0, the score is 1.0 for an extracted 0 and 0.0 for every other
\* extracted number or count (in evaluate_field_accuracy: for every other
\* value), and no call raises ZeroDivisionError.
C4_ZeroGroundTruth ==
    /\ scores.exc # "ZeroDivisionError"
    /\ field_accuracy.exc # "ZeroDivisionError"
    /\ evaluation.exc # "ZeroDivisionError"
    /\ Compared =>
          /\ \A f \in MoneyFields :
                (ground_truth[f] = Num(0) /\ IsNum(extracted[f])) =>
                   scores.results[AccKey(f)]
                      = (IF extracted[f].n = 0 THEN RatOne ELSE RatZero)
          /\ (ground_truth["items"] = List(0) /\ IsList(extracted["items"])) =>
                scores.results["items_count_accuracy"]
                   = (IF extracted["items"].n = 0 THEN RatOne ELSE RatZero)
    /\ (Scored /\ ground_truth[field_name] = Num(0)) =>
          field_accuracy.score
             = (IF extracted[field_name] = Num(0) THEN RatOne ELSE RatZero)
    /\ Evaluated =>
          /\ (ground_truth["total_amount"] = Num(0)
                /\ IsNum(extracted["total_amount"])) =>
                evaluation.total_amount_accuracy
                   = (IF extracted["total_amount"].n = 0 THEN RatOne ELSE RatZero)
          /\ (ground_truth["items"] = List(0) /\ IsList(extracted["items"])) =>
                evaluation.items_count_accuracy
                   = (IF extracted["items"].n = 0 THEN RatOne ELSE RatZero)

\* C4 witness: a non-zero total was compared with a ground truth total of 0
C4_Witness ==
    /\ Compared
    /\ ground_truth["total_amount"] = Num(0)
    /\ IsNum(extracted["total_amount"]) /\ extracted["total_amount"].n # 0
    /\ scores.results["total_amount_accuracy"] = RatZero

\* C5: two strings equal after lowercasing and trimming score exactly 1.0, in
\* compare_fields and in evaluate_field_accuracy.
C5_StringNormalization ==
    /\ Compared =>
          \A f \in StringFieldSet :
             (IsStr(extracted[f]) /\ IsStr(ground_truth[f])
                /\ strip(lower(extracted[f].s)) = strip(lower(ground_truth[f].s))) =>
                scores.results[AccKey(f)] = RatOne
    /\ (Scored /\ field_name \in StringFieldSet
          /\ IsStr(extracted[field_name]) /\ IsStr(ground_truth[field_name])
          /\ strip(lower(extracted[field_name].s))
                = strip(lower(ground_truth[field_name].s))) =>
          field_accuracy.score = RatOne

\* C6: when every value is of the kind of its field or missing (key absent or
\* null), compare_fields and evaluate_extraction return without raising.
C6_MissingNeverRaises ==
    (WellFormed(extracted) /\ WellFormed(ground_truth)) =>
       /\ pc = "compared" => scores.exc = "none"
       /\ pc = "evaluated" => evaluation.exc = "none"

\* C7: whatever the type of a value, compare_fields and evaluate_extraction
\* return without propagating a failure.
C7_MalformedAbsorbed ==
    /\ pc = "compared" => scores.exc = "none"
    /\ pc = "evaluated" => evaluation.exc = "none"

\* the evaluation returned for the same call when the ground truth file holds g
EvaluationWith(g) ==
    evaluate_extraction([ground_truth_dir EXCEPT ![receipt_id] = File(g)],
                        receipt_id, extracted, gpt4o_json, processing_time, version)

\* ground truth records that count as present (a non-empty JSON object)
GroundTruthSamples ==
    {g \in {[gpt4o_json EXCEPT ![f] = v] : f \in Fields, v \in Values} : DictTruthy(g)}

\* C8: with no ground truth file for the receipt id, compare_fields returns the
\* empty mapping and evaluate_extraction returns, without failing, an
\* evaluation that no evaluation against an existing ground truth equals.
C8_MissingGroundTruth ==
    ~ground_truth_dir[receipt_id].exists =>
       /\ pc = "compared" => scores = NoScores
       /\ (pc = "evaluated" /\ WellFormed(extracted)
             /\ \A f \in Fields : extracted[f] # None) =>
             /\ evaluation.exc = "none"
             /\ \A g \in GroundTruthSamples : EvaluationWith(g) # evaluation

WithGroundTruth(v) ==
    SelectSeq(evaluations,
              LAMBDA e : e.version = v /\ ground_truth_dir[e.receipt_id].exists)

\* C10: generate_evaluation_report leaves every evaluation of a receipt without
\* ground truth out of the per-version accuracy means and of the count they are
\* divided by.
C10_AggregationExcludesMissing ==
    pc = "reported" =>
       \A i \in 1..Len(report.sections) :
          LET sec == report.sections[i]
              valid == WithGroundTruth(sec.version)
          IN  /\ sec.receipts_tested = Len(valid)
              /\ valid # <<>> =>
                    \A m \in MetricNames :
                       sec.avg[m] = mean([j \in 1..Len(valid) |-> valid[j][m]])

\* a money value of the record in units of 1 / Unit, 0 when the key is absent
Amount(rec, f) == IF rec[f] = Absent THEN 0 ELSE rec[f].n

\* |(subtotal_amount + tax_amount) - total_amount| < 0.01 on the record alone
WithinTolerance(rec) ==
    100 * Abs(Amount(rec, "subtotal_amount") + Amount(rec, "tax_amount")
              - Amount(rec, "total_amount")) < Unit

MathFields == {"subtotal_amount", "tax_amount", "total_amount"}

\* other ground truth records of the receipt: none, and ones whose amounts do
\* and do not add up
AmountGroundTruths ==
    {EmptyRec, BaseRec, ExampleGroundTruth, [BaseRec EXCEPT !["tax_amount"] = Frac(1)]}

\* C11: the math_validation of a returned evaluation is true exactly when
\* |(subtotal_amount + tax_amount) - total_amount| < 0.01 on the extracted
\* record, whatever the ground truth of the receipt is.
C11_MathValidation ==
    Evaluated =>
       /\ evaluation.math_validation = WithinTolerance(extracted)
       /\ \A g \in AmountGroundTruths :
             LET other == EvaluationWith(g)
             IN  other.exc = "none" =>
                    other.math_validation = evaluation.math_validation

\* a difference inside the tolerance that is not zero validates
C11_Witness ==
    /\ Evaluated
    /\ evaluation.math_validation
    /\ Amount(extracted, "subtotal_amount") + Amount(extracted, "tax_amount")
          # Amount(extracted, "total_amount")

\* C12: when subtotal_amount, tax_amount or total_amount of the extracted record
\* is missing (key absent or value null) it is taken as 0, and
\* evaluate_extraction returns an evaluation with a defined math_validation
\* instead of raising.
C12_MissingMathInputs ==
    (/\ pc = "evaluated"
     /\ WellFormed(extracted)
     /\ \A f \in Fields \ MathFields : extracted[f] # None
     /\ \E f \in MathFields : Missing(extracted[f])) =>
       /\ evaluation.exc = "none"
       /\ evaluation.math_validation =
             WithinTolerance([f \in Fields |->
                                IF extracted[f] = None THEN Absent ELSE extracted[f]])

\* the call under way is the example: extracted record and ground truth
InExample == extracted = ExampleExtracted /\ ground_truth = ExampleGroundTruth

\* C13 as stated: in the example (ground truth Lidl, 2025-05-26, 53.94, 45.80,
\* 7 items; extracted the same plus payment_method "card") every score of
\* compare_fields is 1.0, and math validation is false with tax absent.
C13_ExampleAllOnes ==
    InExample =>
       /\ Compared => \A k \in ScoreKeys : scores.results[k] = RatOne
       /\ pc = "evaluated" => evaluation.exc = "none" /\ ~evaluation.math_validation

\* C13 amended: in the example every score of compare_fields is 1.0 except
\* payment_method_accuracy, which is 0.0 because the ground truth has no
\* payment_method; evaluate_extraction scores 1.0 on its four accuracies and
\* math validation is false with tax absent.
C13_ExampleScores ==
    InExample =>
       /\ pc = "compared" =>
             /\ scores.exc = "none"
             /\ DOMAIN scores.results = ScoreKeys
             /\ \A k \in ScoreKeys \ {"payment_method_accuracy"} :
                   scores.results[k] = RatOne
             /\ scores.results["payment_method_accuracy"] = RatZero
       /\ pc = "evaluated" =>
             /\ evaluation.exc = "none"
             /\ \A m \in MetricNames : evaluation[m] = RatOne
             /\ ~evaluation.math_validation

C13_Witness == InExample /\ Compared

\* the six fields of the schema and the name of the score of each in a
\* PromptEvaluation
SchemaFields == {"merchant_name", "date", "payment_method", "total_amount",
                 "subtotal_amount", "items"}
EvalKey(f) == IF f = "items" THEN "items_count_accuracy"
              ELSE IF f = "merchant_name" THEN "merchant_accuracy"
              ELSE AccKey(f)

\* C14: every evaluation holds exactly one score for each of the six schema
\* fields (merchant_name, date, payment_method, total_amount, subtotal_amount,
\* items count), in the mapping of compare_fields and in the PromptEvaluation
\* of evaluate_extraction alike.
C14_FixedSchema ==
    /\ Compared => DOMAIN scores.results = {AccKey(f) : f \in SchemaFields}
    /\ Evaluated => \A f \in SchemaFields : EvalKey(f) \in DOMAIN evaluation

\* (s1 + ... + s6) / 6 over the six scores of a mapping of compare_fields
MeanOfSix(results) ==
    RatMul(RatSum(<<results["merchant_name_accuracy"], results["date_accuracy"],
                    results["payment_method_accuracy"], results["total_amount_accuracy"],
                    results["subtotal_amount_accuracy"], results["items_count_accuracy"]>>),
           Rat(1, 6))

\* C15: the overall score of a record is the unweighted arithmetic mean of the
\* field scores collected for it, so it lies in [0, 1] whenever every field
\* score does; that is the average generate_report prints and the
\* avg_accuracy test_prompts_on_samples stores.
C15_OverallIsMean ==
    /\ Compared =>
          /\ avg_accuracy(scores.results) = MeanOfSix(scores.results)
          /\ (\A k \in ScoreKeys : InUnit(scores.results[k])) =>
                InUnit(avg_accuracy(scores.results))
    /\ pc = "report_generated" =>
          \A i \in 1..Len(comparison_report.entries) :
             LET e == comparison_report.entries[i]
             IN  DOMAIN e.fields # {} =>
                    /\ e.avg_accuracy = MeanOfSix(e.fields)
                    /\ (\A k \in ScoreKeys : InUnit(e.fields[k])) => InUnit(e.avg_accuracy)

\* a report whose average is strictly between the lowest and highest score
C15_Witness ==
    /\ pc = "report_generated"
    /\ comparison_report.entries # <<>>
    /\ LET e == comparison_report.entries[1]
       IN  /\ DOMAIN e.fields = ScoreKeys
           /\ \E k \in ScoreKeys : RatLT(e.fields[k], e.avg_accuracy)
           /\ \E k \in ScoreKeys : RatLT(e.avg_accuracy, e.fields[k])

\* the money-field score of the numbers (e, g)
MoneyScore(e, g) ==
    IF g = 0 THEN (IF e = 0 THEN RatOne ELSE RatZero) ELSE RelativeErrorScore(e, g)

\* an items value both scorers can count, and its count
Countable(v) == v = Absent \/ IsList(v) \/ IsStr(v)
CountOf(v) == IF IsList(v) THEN v.n ELSE IF IsStr(v) THEN Len(v.s) ELSE 0

\* C16: for all non-negative counts (e, g) the items-count score equals the
\* money-field score of (e, g), in compare_fields and in evaluate_extraction
\* (which writes it as max(0, 1 - |e - g| / max(g, 1))).
C16_CountUsesNumericFormula ==
    (Countable(extracted["items"]) /\ Countable(ground_truth["items"])) =>
       LET e == CountOf(extracted["items"])
           g == CountOf(ground_truth["items"])
       IN  /\ Compared => scores.results["items_count_accuracy"] = MoneyScore(e, g)
           /\ Evaluated =>
                 /\ evaluation.items_count_accuracy = MoneyScore(e, g)
                 /\ Ok(evaluation.items_count_accuracy)
                       = evaluate_field_accuracy(Num(e), Num(g), "total_amount")

\* an evaluation of unequal counts with a score strictly between 0 and 1
C16_Witness ==
    /\ Evaluated
    /\ IsList(extracted["items"]) /\ IsList(ground_truth["items"])
    /\ extracted["items"].n # ground_truth["items"].n
    /\ RatLT(RatZero, evaluation.items_count_accuracy)
    /\ RatLT(evaluation.items_count_accuracy, RatOne)

\* position of a version id in the lexical order of the ids
VersionIndex(v) == CHOOSE i \in 1..Len(VersionList) : VersionList[i] = v

\* C17: the ranking tune_deepseek_to_gpt prints for a receipt holds every
\* scored version once, sorted by score descending, and versions of equal
\* score appear in ascending lexical order of the version id.
C17_RankingOrder ==
    pc = "tune_done" =>
       \A k \in 1..Len(summary.receipts) :
          LET ranking == summary.receipts[k].ranking
              entries == tune_results[summary.receipts[k].receipt_id].versions
          IN  /\ Len(ranking) = Len(entries)
              /\ \A n \in 1..Len(entries) :
                    \E i \in 1..Len(ranking) :
                       /\ ranking[i].version = entries[n].version
                       /\ ranking[i].score = entries[n].similarity_to_gpt4o
              /\ \A i \in 1..Len(ranking) : \A j \in (i + 1)..Len(ranking) :
                    /\ RatLE(ranking[j].score, ranking[i].score)
                    /\ ranking[i].score = ranking[j].score =>
                          VersionIndex(ranking[i].version) < VersionIndex(ranking[j].version)

\* a printed ranking that reorders the versions and has a tie
C17_Witness ==
    /\ pc = "tune_done"
    /\ summary.receipts # <<>>
    /\ LET ranking == summary.receipts[1].ranking
       IN  /\ Len(ranking) = Len(VersionList)
           /\ ranking[1].version # VersionList[1]
           /\ \E i \in 1..Len(ranking) : \E j \in (i + 1)..Len(ranking) :
                 ranking[i].score = ranking[j].score

\* C18: the version marked best (max over avg_accuracy in
\* test_prompts_on_samples, the first entry of the sorted list in
\* tune_deepseek_to_gpt) has a score no other version exceeds and is, among
\* the versions of that score, the lexically smallest id.
C18_BestIsHead ==
    /\ pc = "done" =>
          \A r \in ReceiptIds :
             best_version[r] # "" =>
                \A v \in Versions :
                   LET best == all_results[r][best_version[r]].avg_accuracy
                       other == all_results[r][v].avg_accuracy
                   IN  /\ RatLE(other, best)
                       /\ other = best => VersionIndex(best_version[r]) <= VersionIndex(v)
    /\ pc = "tune_done" =>
          \A k \in 1..Len(summary.receipts) :
             LET ranking == summary.receipts[k].ranking
                 entries == tune_results[summary.receipts[k].receipt_id].versions
             IN  /\ \A i \in 1..Len(ranking) : ranking[i].marker = (i = 1)
                 /\ ranking # <<>> =>
                       \A n \in 1..Len(entries) :
                          /\ RatLE(entries[n].similarity_to_gpt4o, ranking[1].score)
                          /\ entries[n].similarity_to_gpt4o = ranking[1].score =>
                                VersionIndex(ranking[1].version)
                                   <= VersionIndex(entries[n].version)

\* a starred version that is not the first tested and ties with a later one
C18_Witness ==
    /\ pc = "tune_done"
    /\ summary.receipts # <<>>
    /\ LET ranking == summary.receipts[1].ranking
       IN  /\ Len(ranking) = Len(VersionList)
           /\ ranking[1].marker
           /\ ranking[1].version # VersionList[1]
           /\ ranking[2].score = ranking[1].score
           /\ \E i \in 1..Len(ranking) : RatLT(ranking[i].score, ranking[1].score)

\* C19: the summary of a receipt with zero scored versions (in
\* tune_deepseek_to_gpt, a receipt whose version map stays empty because the
\* PDF conversion failed) fails with an error: it never completes with an
\* empty ranking printed for the receipt.
C19_EmptyRankingFails ==
    pc = "tune_done" =>
       \A k \in 1..Len(summary.receipts) : summary.receipts[k].ranking # <<>>

\* C20: generate_evaluation_report called with an empty list fails: it never
\* returns a report for it.
C20_EmptyReportFails ==
    pc = "reported" => evaluations # <<>>

\* the rearrangements of a list of evaluations
Rearrangements(evals) ==
    {[i \in 1..Len(evals) |-> evals[p[i]]] :
        p \in {q \in [1..Len(evals) -> 1..Len(evals)] :
                  \A i, j \in 1..Len(evals) : q[i] = q[j] => i = j}}

\* C21: every permutation of a list of evaluations gives
\* generate_evaluation_report the same result: the same versions in the same
\* sorted order, with the same count, means, deviations, math-validation and
\* valid-JSON counts and average time.
C21_AggregationDeterminism ==
    pc = "reported" =>
       \A evals \in Rearrangements(evaluations) :
          generate_evaluation_report(evals) = report

\* a report of two versions whose evaluations arrived with the later version
\* first
C21_Witness ==
    /\ pc = "reported"
    /\ Len(report.sections) = 2
    /\ Len(evaluations) = MaxEvals
    /\ evaluations[1].version = VersionList[2]
    /\ \E i \in 1..Len(evaluations) : evaluations[i] # evaluations[1]

\* number of evaluations of version v
CountOfVersion(v) == Cardinality({i \in 1..Len(evaluations) : evaluations[i].version = v})

\* C22: generate_evaluation_report places every evaluation in exactly one
\* group, the group of its own version: the sections have distinct versions,
\* each counts the evaluations of its version and at least one, every
\* evaluation's version has a section, and the counts sum to the number of
\* evaluations.
C22_GroupingByVersion ==
    pc = "reported" =>
       LET n == Len(report.sections)
       IN  /\ \A i, j \in 1..n :
                report.sections[i].version = report.sections[j].version => i = j
           /\ \A i \in 1..n :
                /\ report.sections[i].receipts_tested
                      = CountOfVersion(report.sections[i].version)
                /\ report.sections[i].receipts_tested >= 1
           /\ \A k \in 1..Len(evaluations) :
                \E i \in 1..n : report.sections[i].version = evaluations[k].version
           /\ RatSum([i \in 1..n |-> Rat(report.sections[i].receipts_tested, 1)])
                 = Rat(Len(evaluations), 1)

\* a report with two groups of different sizes
C22_Witness ==
    /\ pc = "reported"
    /\ Len(report.sections) = 2
    /\ report.sections[1].receipts_tested # report.sections[2].receipts_tested

\* C23: for a version with exactly one evaluation the reported deviation of
\* every accuracy metric is 0, and for every group the means and deviations
\* are defined values (no division by zero).
C23_StdFallback ==
    pc = "reported" =>
       \A i \in 1..Len(report.sections) :
          LET sec == report.sections[i]
          IN  /\ sec.receipts_tested = 1 =>
                    \A m \in MetricNames : sec.std_sq[m] = RatZero
              /\ \A m \in MetricNames :
                    /\ sec.avg[m].den > 0
                    /\ sec.std_sq[m].den > 0
                    /\ RatLE(RatZero, sec.std_sq[m])
              /\ sec.avg_time.den > 0

\* a report with a group of one evaluation and a group with a deviation
C23_Witness ==
    /\ pc = "reported"
    /\ \E i \in 1..Len(report.sections) : report.sections[i].receipts_tested = 1
    /\ \E i \in 1..Len(report.sections) :
          \E m \in MetricNames : RatLT(RatZero, report.sections[i].std_sq[m])

\* the characters of a string after lowercasing and trimming
NormalChars(v) == {strip(lower(v.s))[n] : n \in 1..Len(strip(lower(v.s)))}
\* two strings that differ after normalization and share a character
UnequalSharing(e, g) ==
    /\ IsStr(e) /\ IsStr(g)
    /\ strip(lower(e.s)) # strip(lower(g.s))
    /\ NormalChars(e) \cap NormalChars(g) # {}
StrictlyInside(x) == RatLT(RatZero, x) /\ RatLT(x, RatOne)

\* C24: two strings that differ after normalization but share at least one
\* character score strictly between 0 and 1, in compare_fields and in
\* evaluate_field_accuracy.
C24_UnequalStringsScore ==
    /\ Compared =>
          \A f \in StringFieldSet :
             UnequalSharing(extracted[f], ground_truth[f]) =>
                StrictlyInside(scores.results[AccKey(f)])
    /\ (Scored /\ field_name \in StringFieldSet) =>
          (UnequalSharing(extracted[field_name], ground_truth[field_name]) =>
              StrictlyInside(field_accuracy.score))

\* C25: with ground truth present, compare_fields and evaluate_extraction
\* give the same score to each field both of them score (merchant_name, date,
\* total_amount, items count) whenever both return.
C25_ScorersAgree ==
    (Evaluated /\ DictTruthy(ground_truth)) =>
       LET compared == compare_fields(ground_truth_dir, extracted, receipt_id)
       IN  compared.exc = "none" =>
              /\ compared.results["merchant_name_accuracy"] = evaluation.merchant_accuracy
              /\ compared.results["date_accuracy"] = evaluation.date_accuracy
              /\ compared.results["total_amount_accuracy"]
                    = evaluation.total_amount_accuracy
              /\ compared.results["items_count_accuracy"]
                    = evaluation.items_count_accuracy

(* ----------------------- benchmarking/pipeline.py ---------------------- *)
\* longest response of a model, in tokens
MaxResponse == 3

\* the tokens of a response text: the braces, the comma, two members of a
\* JSON object ("merchant_name": "a" and "total_amount": 1) and prose
Tokens == {"{", "}", ",", "m", "t", "x"}
Members == {"m", "t"}
Member(tok) == IF tok = "m" THEN [field |-> "merchant_name", value |-> Str(<<"a">>)]
               ELSE [field |-> "total_amount", value |-> Num(1)]

RECURSIVE TextsUpTo(_)
TextsUpTo(k) ==
    IF k = 0 THEN {<<>>}
    ELSE LET prev == TextsUpTo(k - 1)
         IN  prev \cup {Append(p, c) : p \in {q \in prev : Len(q) = k - 1}, c \in Tokens}

\* a response whose text is None
NoneText == <<"None">>

\* re.search(r'\{[\s\S]*\}', text).group(): from the first "{" to the last
\* "}" behind it; <<>> when there is no match
json_match(text) ==
    LET opens == {n \in 1..Len(text) : text[n] = "{"}
        closes == {n \in 1..Len(text) : text[n] = "}"}
    IN  IF opens = {} \/ closes = {} THEN <<>>
        ELSE LET first == CHOOSE n \in opens : \A k \in opens : n <= k
                 last == CHOOSE n \in closes : \A k \in closes : n >= k
             IN  IF first < last THEN SubSeq(text, first, last) ELSE <<>>

\* json.loads(json_str) succeeds: the braces enclose members separated by commas
IsObjectText(json_str) ==
    LET body == SubSeq(json_str, 2, Len(json_str) - 1)
    IN  /\ Len(json_str) >= 2
        /\ json_str[1] = "{" /\ json_str[Len(json_str)] = "}"
        /\ \/ body = <<>>
           \/ /\ Len(body) % 2 = 1
              /\ \A n \in 1..Len(body) :
                    IF n % 2 = 1 THEN body[n] \in Members ELSE body[n] = ","

\* json.loads(json_str) for an object text
json_loads(json_str) ==
    [f \in Fields |->
        IF \E n \in 1..Len(json_str) :
              json_str[n] \in Members /\ Member(json_str[n]).field = f
        THEN Member(CHOOSE tok \in Members : Member(tok).field = f).value
        ELSE Absent]

\* _parse_json_response of both stages: the object, {} when nothing matches
\* or the match is not JSON; re.search raises TypeError for a None text
parse_json_response(response_text) ==
    IF response_text = NoneText THEN Raise("TypeError")
    ELSE LET json_str == json_match(response_text)
         IN  IF json_str # <<>> /\ IsObjectText(json_str) THEN Ok(json_loads(json_str))
             ELSE Ok(EmptyRec)

\* a cost of c hundred-thousandths of a dollar
CostOf(c) == [t |-> "num", s |-> <<>>, n |-> c]

\* dataclass PipelineStage; error <<>> is None
PipelineStage(stage_name, input_data, output_data, time, tokens_used, cost, error) ==
    [stage_name |-> stage_name, input_data |-> input_data, output_data |-> output_data,
     processing_time |-> time, tokens_used |-> tokens_used, cost |-> cost,
     error |-> error]

\* text[:100]
Prefix100(text) == SubSeq(text, 1, IF Len(text) < 100 THEN Len(text) ELSE 100)

\* what a service does when it is called: it raises, or it answers
Raises(message) == [kind |-> "raises", text |-> <<message>>, tokens |-> 0]
Answers(text, tokens) == [kind |-> "answers", text |-> text, tokens |-> tokens]

\* GoogleVisionOCRStage.process; one tick of the clock passes during a call
GoogleVisionOCRStage_process(is_available, outcome, path) ==
    IF ~is_available
    THEN PipelineStage("google_vision", path, <<>>, 0, None, None,
                       <<"Google Vision not available">>)
    ELSE IF outcome.kind = "raises"
    THEN PipelineStage("google_vision", path, <<>>, 0, None, None, outcome.text)
    ELSE PipelineStage("google_vision", path, outcome.text, 1, None, CostOf(150), <<>>)

\* GPT4oMiniExtractionStage.process; the cost: 60% of the tokens are input
\* tokens at $0.00015, the others output tokens at $0.0006
GPT4oMiniExtractionStage_process(is_available, outcome, raw_ocr_text) ==
    LET failed(error) == PipelineStage("gpt4o_mini", Prefix100(raw_ocr_text), EmptyRec,
                                       0, None, None, error)
        extracted_json == parse_json_response(outcome.text)
        tokens_used == outcome.tokens
        input_tokens == (tokens_used * 6) \div 10
        output_tokens == tokens_used - input_tokens
        cost == CostOf(input_tokens * 15 + output_tokens * 60)
    IN  IF ~is_available THEN failed(<<"GPT-4o mini not available">>)
        ELSE IF outcome.kind = "raises" THEN failed(outcome.text)
        ELSE IF extracted_json.exc # "none" THEN failed(<<extracted_json.exc>>)
        ELSE PipelineStage("gpt4o_mini", Prefix100(raw_ocr_text), extracted_json.score,
                           1, Num(tokens_used), cost, <<>>)

\* DeepSeekR1OptimizationStage._get_optimization_prompt: the template chosen
\* (named by its first words) and the values it is filled with
get_optimization_prompt(raw_ocr_text, json, prompt_version) ==
    [template |-> IF prompt_version = "v2" THEN "You are an expert receipt analyzer."
                  ELSE IF prompt_version = "v3"
                  THEN "Let's analyze this receipt step by step."
                  ELSE "Extract and optimize receipt data from OCR text.",
     raw_ocr_text |-> raw_ocr_text,
     gpt4o_json |-> json]

\* DeepSeekR1OptimizationStage.process keeping an empty parsed object
DeepSeekR1OptimizationStage_process_KeepsEmpty(is_available, outcome, raw_ocr_text, json, prompt_version) ==
    LET fallback(time, error) ==
            PipelineStage("deepseek_r1", Prefix100(raw_ocr_text), json,
                          time, None, None, error)
        optimized_json == parse_json_response(outcome.text)
    IN  IF ~is_available THEN fallback(0, <<"DeepSeek R1/Ollama not available">>)
        ELSE IF outcome.kind = "raises" THEN fallback(1, outcome.text)
        ELSE IF optimized_json.exc # "none" THEN fallback(1, <<optimized_json.exc>>)
        ELSE PipelineStage("deepseek_r1", Prefix100(raw_ocr_text),
                           optimized_json.score, 1, None, CostOf(1), <<>>)

\* DeepSeekR1OptimizationStage.process
DeepSeekR1OptimizationStage_process(is_available, outcome, raw_ocr_text, json, prompt_version) ==
    LET fallback(time, error) ==
            PipelineStage("deepseek_r1", Prefix100(raw_ocr_text), json,
                          time, None, None, error)
        optimized_json == parse_json_response(outcome.text)
    IN  IF ~is_available THEN fallback(0, <<"DeepSeek R1/Ollama not available">>)
        ELSE IF outcome.kind = "raises" THEN fallback(1, outcome.text)
        ELSE IF optimized_json.exc # "none" THEN fallback(1, <<optimized_json.exc>>)
        ELSE PipelineStage("deepseek_r1", Prefix100(raw_ocr_text),
                           IF DictTruthy(optimized_json.score)
                           THEN optimized_json.score ELSE json,
                           1, None, CostOf(1), <<>>)

\* total_cost of process_receipt dropping the cost of the last stage
total_cost_TwoStages(google_stage, gpt4o_stage, deepseek_stage) ==
    Or(google_stage.cost, CostOf(0)).n + Or(gpt4o_stage.cost, CostOf(0)).n

\* (google_stage.cost or 0) + (gpt4o_stage.cost or 0) + (deepseek_stage.cost or 0)
total_cost(google_stage, gpt4o_stage, deepseek_stage) ==
    Or(google_stage.cost, CostOf(0)).n + Or(gpt4o_stage.cost, CostOf(0)).n
       + Or(deepseek_stage.cost, CostOf(0)).n

(* ---------------- process_receipt (SpecPipeline) ----------------------- *)
\* the identifiers the command line accepts


\* Google Vision raises, or reads nothing, a short text or LongLen characters
VisionOutcomes ==
    {Raises("FileNotFoundError")}
    \cup {Answers(text, 0) : text \in {<<>>, <<"a", "1">>, LongName.s}}
Gpt4oOutcomes ==
    {Raises("APIError")}
    \cup {Answers(text, n) : text \in TextsUpTo(MaxResponse) \cup {NoneText},
                              n \in {0, 10}}
DeepSeekOutcomes ==
    {Raises("ResponseError")}
    \cup {Answers(text, 0) : text \in TextsUpTo(MaxResponse) \cup {NoneText}}

InitPipeline ==
    /\ available \in [{"google_vision", "gpt4o_mini", "deepseek_r1"} -> BOOLEAN]
    /\ image_path = <<"r1", ".png">>
    /\ version \in Versions \cup {"v7"}
    /\ google_vision_stage = NoStage
    /\ gpt4o_mini_stage = NoStage
    /\ deepseek_r1_stage = NoStage
    /\ stage_calls = <<>>
    /\ prompt = NoPrompt
    /\ receipt_result = NoResult
    /\ pc = "pipeline_start"
    /\ ground_truth_dir = [r \in ReceiptIds |-> NoFile]
    /\ receipt_id = "r1"
    /\ extracted = EmptyRec
    /\ gpt4o_json = EmptyRec
    /\ processing_time = 1
    /\ field_name = "merchant_name"
    /\ scores = NoScores
    /\ field_accuracy = Ok(RatZero)
    /\ evaluation = NoEvaluation
    /\ evaluations = <<>>
    /\ report = NoReport
    /\ ocr_results = {}
    /\ processor = [ollama |-> FALSE, exc |-> "none"]
    /\ remaining = <<>>
    /\ all_results = [r \in ReceiptIds |-> [v \in Versions |-> NoEntry]]
    /\ best_version = [r \in ReceiptIds |-> ""]
    /\ comparison_report = NoComparisonReport
    /\ TunerIdle

\* Stage 1: google_stage = self.google_vision_stage.process(image_path)
RunGoogleVision ==
    /\ pc = "pipeline_start"
    /\ \E outcome \in (IF available["google_vision"] THEN VisionOutcomes ELSE {Raises("not called")}) :
          google_vision_stage' =
             GoogleVisionOCRStage_process(available["google_vision"], outcome, image_path)
    /\ stage_calls' = Append(stage_calls, [stage |-> "google_vision", args |-> <<image_path>>])
    /\ pc' = "ocr_done"
    /\ UNCHANGED <<ground_truth_dir, receipt_id, extracted, version, processing_time,
                   field_name, scores, field_accuracy, evaluation, harness, samples,
                   comparison_report, tuner, available, image_path,
                   gpt4o_json, gpt4o_mini_stage, deepseek_r1_stage, prompt, receipt_result>>

\* Stage 2: gpt4o_stage = self.gpt4o_stage.process(raw_ocr_text)
RunGpt4oMini ==
    /\ pc = "ocr_done"
    /\ LET raw_ocr_text == google_vision_stage.output_data
       IN  /\ \E outcome \in (IF available["gpt4o_mini"] THEN Gpt4oOutcomes
                              ELSE {Raises("not called")}) :
                 LET gpt4o_stage == GPT4oMiniExtractionStage_process(
                                       available["gpt4o_mini"], outcome, raw_ocr_text)
                 IN  /\ gpt4o_mini_stage' = gpt4o_stage
                     /\ gpt4o_json' = gpt4o_stage.output_data
           /\ stage_calls' = Append(stage_calls, [stage |-> "gpt4o_mini", args |-> <<raw_ocr_text>>])
    /\ pc' = "gpt_done"
    /\ UNCHANGED <<ground_truth_dir, receipt_id, extracted, version, processing_time,
                   field_name, scores, field_accuracy, evaluation, harness, samples,
                   comparison_report, tuner, available, image_path,
                   google_vision_stage, deepseek_r1_stage, prompt, receipt_result>>

\* Stage 3 and the totals: deepseek_stage = self.deepseek_stage.process(
\* raw_ocr_text, gpt4o_json, prompt_version), then the result is returned
RunDeepSeek ==
    /\ pc = "gpt_done"
    /\ LET raw_ocr_text == google_vision_stage.output_data
       IN  /\ \E outcome \in (IF available["deepseek_r1"] THEN DeepSeekOutcomes
                              ELSE {Raises("not called")}) :
                 LET deepseek_stage == DeepSeekR1OptimizationStage_process(
                                          available["deepseek_r1"], outcome,
                                          raw_ocr_text, gpt4o_json, version)
                 IN  /\ deepseek_r1_stage' = deepseek_stage
                     /\ receipt_result' =
                           [receipt_id |-> image_path[1],
                            image_path |-> image_path,
                            final_json |-> deepseek_stage.output_data,
                            total_processing_time |->
                               google_vision_stage.processing_time
                                  + gpt4o_mini_stage.processing_time
                                  + deepseek_stage.processing_time,
                            total_cost |-> total_cost(google_vision_stage,
                                                      gpt4o_mini_stage, deepseek_stage)]
           /\ prompt' = IF available["deepseek_r1"]
                        THEN get_optimization_prompt(raw_ocr_text, gpt4o_json, version)
                        ELSE prompt
           /\ stage_calls' = Append(stage_calls,
                                    [stage |-> "deepseek_r1",
                                     args |-> <<raw_ocr_text, gpt4o_json, version>>])
    /\ pc' = "pipeline_returned"
    /\ UNCHANGED <<ground_truth_dir, receipt_id, extracted, version, processing_time,
                   field_name, scores, field_accuracy, evaluation, harness, samples,
                   comparison_report, tuner, available, image_path,
                   gpt4o_json, google_vision_stage, gpt4o_mini_stage>>

NextPipeline == RunGoogleVision \/ RunGpt4oMini \/ RunDeepSeek

SpecPipeline == InitPipeline /\ [][NextPipeline]_vars

\* process_receipt is sequential code: each of its steps is taken in turn
SpecPipelineLive == SpecPipeline /\ WF_vars(NextPipeline)

(* ------------- optimization/prompt_templates.py ------------------------ *)
\* PromptTemplates.get_prompt: the template method chosen and its arguments
get_prompt(prompt_version, raw_ocr, json) ==
    [template |-> IF prompt_version = "v1" THEN "v1_basic"
                  ELSE IF prompt_version = "v2" THEN "v2_detailed"
                  ELSE IF prompt_version = "v3" THEN "v3_cot"
                  ELSE IF prompt_version = "v4" THEN "v4_validation"
                  ELSE IF prompt_version = "v5" THEN "v5_multilingual"
                  ELSE IF prompt_version = "v6" THEN "v6_aggressive"
                  ELSE "v1_basic",
     raw_ocr_text |-> raw_ocr,
     gpt4o_json |-> json]

(* --------------------------- pipeline claims --------------------------- *)
Returned == pc = "pipeline_returned"
\* the response holds a JSON object with at least one member
YieldsObject(outcome) ==
    /\ outcome.kind = "answers"
    /\ parse_json_response(outcome.text).exc = "none"
    /\ DictTruthy(parse_json_response(outcome.text).score)

\* C26: DeepSeekR1OptimizationStage.process always returns a stage; its
\* output_data is the GPT-4o mini JSON it was given when Ollama is
\* unavailable, when the model call raises and when the response holds no
\* parseable non-empty JSON object, and is the parsed object otherwise; so
\* final_json is non-empty whenever the GPT-4o mini JSON is.
C26_DeepSeekFallback ==
    /\ pc = "gpt_done" =>
          \A outcome \in DeepSeekOutcomes, is_available \in BOOLEAN :
             LET stage == DeepSeekR1OptimizationStage_process(
                             is_available, outcome,
                             google_vision_stage.output_data, gpt4o_json, version)
             IN  /\ stage.stage_name = "deepseek_r1"
                 /\ stage.output_data
                       = IF is_available /\ YieldsObject(outcome)
                         THEN parse_json_response(outcome.text).score
                         ELSE gpt4o_json
    /\ Returned =>
          /\ deepseek_r1_stage.stage_name = "deepseek_r1"
          /\ (~available["deepseek_r1"] \/ deepseek_r1_stage.error # <<>>) =>
                deepseek_r1_stage.output_data = gpt4o_json
          /\ deepseek_r1_stage.output_data # gpt4o_json =>
                DictTruthy(deepseek_r1_stage.output_data)
          /\ DictTruthy(gpt4o_json) => DictTruthy(receipt_result.final_json)

\* the model call raised and the non-empty GPT-4o mini JSON became final
C26_Witness ==
    /\ Returned
    /\ available["deepseek_r1"]
    /\ deepseek_r1_stage.error = <<"ResponseError">>
    /\ DictTruthy(gpt4o_json)
    /\ receipt_result.final_json = gpt4o_json

\* a stage's cost, a missing one counted as 0
CostOrZero(stage) == IF stage.cost = None THEN 0 ELSE stage.cost.n
ExpectedStages == <<"google_vision", "gpt4o_mini", "deepseek_r1">>

StagesInOrder ==
    /\ Len(stage_calls) = (CASE pc = "pipeline_start" -> 0
                             [] pc = "ocr_done" -> 1
                             [] pc = "gpt_done" -> 2
                             [] OTHER -> 3)
    /\ \A n \in 1..Len(stage_calls) : stage_calls[n].stage = ExpectedStages[n]
    /\ Len(stage_calls) >= 1 =>
          /\ stage_calls[1].args = <<image_path>>
          /\ google_vision_stage.stage_name = "google_vision"
          /\ ~available["google_vision"] => google_vision_stage.error # <<>>
    /\ Len(stage_calls) >= 2 =>
          /\ stage_calls[2].args = <<google_vision_stage.output_data>>
          /\ gpt4o_mini_stage.stage_name = "gpt4o_mini"
          /\ ~available["gpt4o_mini"] => gpt4o_mini_stage.error # <<>>
    /\ Len(stage_calls) >= 3 =>
          /\ stage_calls[3].args = <<google_vision_stage.output_data,
                                     gpt4o_mini_stage.output_data, version>>
          /\ deepseek_r1_stage.stage_name = "deepseek_r1"
          /\ ~available["deepseek_r1"] => deepseek_r1_stage.error # <<>>
    /\ \A outcome \in {Raises("FileNotFoundError"), Raises("APIError")} :
          /\ GoogleVisionOCRStage_process(TRUE, outcome, image_path).error = outcome.text
          /\ GPT4oMiniExtractionStage_process(TRUE, outcome, <<>>).error = outcome.text
    /\ Returned =>
          /\ receipt_result.final_json = deepseek_r1_stage.output_data
          /\ receipt_result.total_cost
                = CostOrZero(google_vision_stage) + CostOrZero(gpt4o_mini_stage)
                     + CostOrZero(deepseek_r1_stage)

\* C27: process_receipt calls the three stages once each in the order Google
\* Vision, GPT-4o mini on the OCR text, DeepSeek R1 on the OCR text and the
\* GPT-4o mini JSON; a failed stage carries its error and the later stages
\* still run; the call always returns, with final_json the DeepSeek output
\* and total_cost the sum of the stage costs, a missing cost counted as 0.
C27_StageOrder == [](StagesInOrder) /\ <>(pc = "pipeline_returned")

\* Google Vision failed, the later stages ran and produced a non-empty result
C27_Witness ==
    /\ Returned
    /\ available["google_vision"] /\ google_vision_stage.error # <<>>
    /\ gpt4o_mini_stage.error = <<>> /\ gpt4o_mini_stage.cost # CostOf(0)
    /\ deepseek_r1_stage.error = <<>>
    /\ DictTruthy(receipt_result.final_json)
    /\ receipt_result.total_cost = 331

\* C28: each identifier v1..v6 selects a template of its own, different from
\* the template of every other version, in get_prompt and in
\* _get_optimization_prompt, and an unknown identifier selects that of v1.
C28_DistinctPromptVersions ==
    (Returned /\ available["deepseek_r1"]) =>
       LET raw_ocr_text == google_vision_stage.output_data
       IN  /\ prompt = get_optimization_prompt(raw_ocr_text, gpt4o_json, version)
           /\ \A other \in Versions \ {version} :
                 IF version \notin Versions
                 THEN /\ (other = "v1") =
                            (get_optimization_prompt(raw_ocr_text, gpt4o_json, other)
                                = prompt)
                      /\ (other = "v1") =
                            (get_prompt(other, raw_ocr_text, gpt4o_json)
                                = get_prompt(version, raw_ocr_text, gpt4o_json))
                 ELSE /\ get_optimization_prompt(raw_ocr_text, gpt4o_json, other) # prompt
                      /\ get_prompt(other, raw_ocr_text, gpt4o_json)
                            # get_prompt(version, raw_ocr_text, gpt4o_json)

(* --------------------- tune_deepseek_to_gpt claims --------------------- *)
\* a prompt version has just been compared: gpt4o_json and extracted hold
\* the outputs of the two stages
VersionCompared ==
    /\ pc \in {"tune_versions", "tune_crashed"}
    /\ version # "" /\ (pc = "tune_crashed" \/ tune_results[receipt_id].versions # <<>>)

\* C29: compare_json_outputs returns a value in [0,1] for any two JSON
\* objects, 0.0 when either is empty, and 1.0 when a non-empty object is
\* compared with itself.
C29_SimilarityBounded ==
    VersionCompared =>
       LET similarity_score == compare_json_outputs(gpt4o_json, extracted)
       IN  /\ similarity_score.exc = "none"
           /\ InUnit(similarity_score.score)
           /\ (~DictTruthy(gpt4o_json) \/ ~DictTruthy(extracted)) =>
                 similarity_score.score = RatZero
           /\ (DictTruthy(gpt4o_json) /\ gpt4o_json = extracted) =>
                 similarity_score.score = RatOne

\* C30: every temporary PNG tune_deepseek_to_gpt creates for a PDF receipt is
\* removed before the function finishes, on every path, also when the PDF
\* conversion returns no pages or raises.
C30_TempFilesRemoved ==
    pc \in {"tune_done", "tune_returned", "tune_crashed"} => temp_dir = {}

====
